---- MODULE Spec2Model ----
(***************************************************************************)
(* Streak / streak-saver engine and score ledger of the SAT practice bot.  *)
(*                                                                         *)
(* The persistent state is the `users` and `tests` tables.  Time is kept   *)
(* in minutes of local time; the clock moves from one local day to the     *)
(* next.                                                                   *)
(*                                                                         *)
(* Spec      : the streak / saver engine; every request handler runs to    *)
(*             completion (one request at a time).                         *)
(* SpecConc  : two calls of the engine functions run concurrently,         *)
(*             interleaved at the granularity of storage statements /      *)
(*             transactions.                                               *)
(* SpecLedger: the score ledger, with every score input and with removals. *)
(***************************************************************************)
EXTENDS Integers, FiniteSets, Sequences, TLC

\* ---- bounds of the model ----
MaxDay == 3
MaxTests == 3
InitSavers == 2
MaxUpdateId == 6
MaxDeliveries == 2
\* the requests followed from the empty tables
MaxRequests == 5
\* the runs of the reminder job that are followed
MaxSlots == 10
\* the sends and writes of the reminder job that fail
MaxFailures == 1
\* the largest users.id the sequence hands out
MaxUserId == 3

\* ---- program constants ----
SAVER_EARN_THRESHOLD == 3
MAX_DAILY_TESTS == 6
COOLDOWN_MINUTES == 30
MIN_SCORE == 0
MAX_SCORE == 44
DayMinutes == 1440

\* rows of the users table: user 1 is the user whose requests are followed,
\* user 2 is another student whose row and one test are in the tables
Users == {1, 2}
Senders == {1}
\* the two concurrent calls
Procs == {1, 2}

\* score texts a user or an admin may send: the two ends of the range and
\* one value on each side outside the range
ScoreInputs == {MIN_SCORE - 1, MIN_SCORE, MAX_SCORE, MAX_SCORE + 1}
\* the inputs of the engine specifications, where the score value plays no role
EngineScores == {MAX_SCORE, MAX_SCORE + 1}

NULL == -1

VARIABLES
    now,            \* current time (minutes)
    users,          \* users table: user id -> row
    tests,          \* tests table: set of rows
    next_test_id,   \* SERIAL sequence of tests.id
    ret,            \* what the last handler / function call returned
    consumed,       \* per user: savers consumed since the last ScoreEvent / day change
    earned,         \* per user: 'earned' notifications returned on the current local day
    credited,       \* per user: the balance at the start plus the 'earned'
                    \* notifications returned since
    spent,          \* per user: streak evaluations that reported saver_used
    last_bridge,    \* per user: local day and reported streak of the last evaluation
                    \* that spent a saver (day NULL: none yet)
    pc,             \* per concurrent request: next statement
    loc,            \* per concurrent request: local variables
    history,        \* estimate_goal: the history rows handed in, newest first
    goal,           \* estimate_goal: the goal handed in
    estimate,       \* estimate_goal: what the last call computed and returned
    zone,           \* the configured timezone (TIMEZONE)
    event_at,       \* created_at of one ScoreEvent (UTC minutes)
    bounds,         \* what tz_bounds_for_today returned (<<>> before the call)
    txn,            \* per concurrent request: the users row written in its open
                    \* transaction and not yet committed (<<>>: none)
    accounts,       \* users table, identity and registration columns: set of rows
    next_user_id,   \* SERIAL sequence of users.id
    processed,      \* processed_updates table: set of update ids
    accepted,       \* per update id: calls of mark_update_processed that returned True
    last_update,    \* the update Telegram delivered last, and how many of its
                    \* deliveries the webhook acted on
    outbox,         \* the messages the last request or tick step sent: set of
                    \* [chat_id, kind]
    tick,           \* the running notification_tick: its local variables
    nudges          \* per users.id: nudges delivered on the current local day

vars == <<now, users, tests, next_test_id, ret, consumed, earned, credited, spent,
          last_bridge, pc, loc,
          history, goal, estimate, zone, event_at, bounds, txn, accounts, next_user_id,
          processed, accepted, last_update, outbox, tick, nudges>>

\* the variables of outbound messages and of the reminder job
notifyVars == <<outbox, tick, nudges>>

\* the variables of update deduplication
dedupVars == <<processed, accepted, last_update>>

\* the variables of the goal projection
goalVars == <<history, goal, estimate>>

\* the identity and registration columns of the users table
acctVars == <<accounts, next_user_id>>

\* the variables of the timezone conversion
tzVars == <<zone, event_at, bounds>>

\* TIMEZONE unset: "UTC".  A zone is its UTC offset (minutes) before and
\* after one transition, and the UTC minute of the transition.
UTCZone == [name |-> "UTC", before |-> 0, after |-> 0, at |-> 0]

\* slope, days_needed: rationals <<numerator, denominator>>; eta: minutes
NoEstimate == [outcome |-> "none", slope |-> <<0, 1>>, days_needed |-> <<0, 1>>, eta |-> 0]

Max(a, b) == IF a >= b THEN a ELSE b
Min(a, b) == IF a <= b THEN a ELSE b

\* (created_at AT TIME ZONE tz)::date  and  datetime.now(tz).date()
LocalDate(t) == t \div DayMinutes

\* [start, end) of the current local day
tz_bounds_for_today(t) == <<LocalDate(t) * DayMinutes, LocalDate(t) * DayMinutes + DayMinutes>>

\* the WHERE user_id = u filter is missing
TestsOf_AllUsers(T, u) == T

\* ... FROM tests WHERE user_id = u
TestsOf(T, u) == {r \in T : r.user_id = u}

tests_today_count(T, u, t) ==
    LET b == tz_bounds_for_today(t)
    IN Cardinality({r \in TestsOf(T, u) : r.created_at >= b[1] /\ r.created_at < b[2]})

\* SELECT DISTINCT (created_at AT TIME ZONE tz)::date FROM tests WHERE user_id = u
StreakDays(T, u) == {LocalDate(r.created_at) : r \in TestsOf(T, u)}

\* the walk starts at yesterday
RECURSIVE StreakWalk_FromYesterday(_, _)
StreakWalk_FromYesterday(dayset, cur_day) ==
    IF (cur_day - 1) \in dayset THEN 1 + StreakWalk_FromYesterday(dayset, cur_day - 1) ELSE 0

\* while cur_day in dayset: streak += 1; cur_day -= 1
RECURSIVE StreakWalk(_, _)
StreakWalk(dayset, cur_day) ==
    IF cur_day \in dayset THEN 1 + StreakWalk(dayset, cur_day - 1) ELSE 0

\* the bridge does not look at yesterday
BridgeApplies_AnyGap(dayset, today, savers) ==
    /\ today \notin dayset
    /\ savers > 0

\* today not in dayset, yesterday in dayset, and a saver is available
BridgeApplies(dayset, today, savers) ==
    /\ today \notin dayset
    /\ (today - 1) \in dayset
    /\ savers > 0

\* the decrement without the GREATEST(0, ...) clamp
DecrementSaver_Unclamped(persisted) == persisted - 1

\* UPDATE users SET streak_savers = GREATEST(0, streak_savers - 1)
DecrementSaver(persisted) == Max(0, persisted - 1)

\* today is not added to the day set
WalkSet_WithoutToday(dayset, today, bridged) == dayset

\* the day set the walk runs over
WalkSet(dayset, today, bridged) == IF bridged THEN dayset \cup {today} ELSE dayset

\* prev_points / prev_count: the totals of the user before an add;
\* row: users.id of the record a function returned (0: None);
\* undo: a removal that directly follows the add of the same test
NoRet == [op |-> "none", u |-> 0, streak |-> 0, used |-> FALSE, savers |-> 0,
          note |-> FALSE, test_id |-> 0, prev_points |-> 0, prev_count |-> 0,
          undo |-> FALSE, text |-> "", update_id |-> 0, row |-> 0]

NoBridge == [day |-> NULL, streak |-> 0]

\* update ids Telegram hands out
UpdateIds == 1..MaxUpdateId

NoUpdate == [update_id |-> 0, text |-> "", handled |-> 0]

\* no notification_tick is running
NoTick == [running |-> FALSE, rows |-> <<>>, i |-> 0, at |-> NULL, failed |-> 0]

AddOps == {"score", "admin_add", "add"}
StreakOps == {"start", "my_stats", "streak"}
AwardOps == {"award", "score"}

IdleLoc == [u |-> 0, variant |-> "none", savers |-> 0, streak |-> 0,
            telegram_id |-> 0, chat_id |-> 0, update_id |-> 0,
            test_id |-> 0, score |-> 0]

\* The followed user is registered and approved, has no test left (an admin
\* may have deleted them) and holds up to InitSavers savers earned on an
\* earlier day; the other user logged one test on day 0.
Init ==
    /\ now = DayMinutes
    /\ \E s \in 0..InitSavers :
         users = [u \in Users |->
                    IF u \in Senders
                    THEN [streak_savers |-> s,
                          saver_awarded_date |-> IF s = 0 THEN NULL ELSE 0,
                          total_points |-> 0, tests_count |-> 0, state |-> "none", goal_math |-> NULL]
                    ELSE [streak_savers |-> 0, saver_awarded_date |-> NULL,
                          total_points |-> MAX_SCORE, tests_count |-> 1, state |-> "none", goal_math |-> NULL]]
    /\ tests = {[id |-> 1, user_id |-> 2, math_score |-> MAX_SCORE, created_at |-> 0]}
    /\ next_test_id = 2
    /\ ret = NoRet
    /\ consumed = [u \in Users |-> 0]
    /\ last_bridge = [u \in Users |-> NoBridge]
    /\ credited = [u \in Users |-> users[u].streak_savers]
    /\ spent = [u \in Users |-> 0]
    /\ earned = [u \in Users |-> 0]
    /\ pc = [p \in Procs |-> "idle"]
    /\ loc = [p \in Procs |-> IdleLoc]
    /\ history = <<>>
    /\ goal = NULL
    /\ estimate = NoEstimate
    /\ zone = UTCZone
    /\ event_at = NULL
    /\ bounds = <<>>
    /\ txn = [p \in Procs |-> <<>>]
    /\ accounts = {}
    /\ next_user_id = 1
    /\ processed = {}
    /\ accepted = [id \in UpdateIds |-> 0]
    /\ last_update = NoUpdate
    /\ outbox = {}
    /\ tick = NoTick
    /\ nudges = [id \in 1..MaxUserId |-> 0]

\* ------------------------------------------------------------------------
\* storage operations (each one transaction)
\* ------------------------------------------------------------------------

\* the upper end of the range is not checked
ValidScore_NoUpper(score) == score >= MIN_SCORE

\* if score < 0 or score > 44: reject
ValidScore(score) == score >= MIN_SCORE /\ score <= MAX_SCORE

\* INSERT INTO tests ... RETURNING id
InsertTest(T, u, score, id, t) ==
    T \cup {[id |-> id, user_id |-> u, math_score |-> score, created_at |-> t]}

\* the add forgets tests_count
CreditUser_PointsOnly(U, u, score) ==
    [U EXCEPT ![u].total_points = @ + score]

\* UPDATE users SET total_points = total_points + score, tests_count = tests_count + 1
CreditUser(U, u, score) ==
    [U EXCEPT ![u].total_points = @ + score, ![u].tests_count = @ + 1]

\* the removal forgets tests_count
DebitUser_PointsOnly(U, u, score) ==
    [U EXCEPT ![u].total_points = Max(0, @ - score)]

\* UPDATE users SET total_points = GREATEST(0, total_points - score),
\*                  tests_count = GREATEST(0, tests_count - 1)
DebitUser(U, u, score) ==
    [U EXCEPT ![u].total_points = Max(0, @ - score), ![u].tests_count = Max(0, @ - 1)]

\* SELECT user_id, math_score FROM tests WHERE id = test_id
FindTest(T, test_id) == {r \in T : r.id = test_id}

\* DELETE FROM tests WHERE id = test_id
DeleteTest(T, test_id) == {r \in T : r.id # test_id}

\* users table after remove_test_by_id
RemoveUsers(U, T, test_id) ==
    IF FindTest(T, test_id) = {} THEN U
    ELSE LET row == CHOOSE r \in FindTest(T, test_id) : TRUE
         IN DebitUser(U, row.user_id, row.math_score)

\* return value of remove_test_by_id (NULL for None)
RemoveResult(T, test_id) ==
    IF FindTest(T, test_id) = {} THEN NULL
    ELSE (CHOOSE r \in FindTest(T, test_id) : TRUE).user_id

\* created_at of the newest test of the user (NULL when there is none)
LastTestAt(T, u) ==
    IF TestsOf(T, u) = {} THEN NULL
    ELSE CHOOSE t \in {r.created_at : r \in TestsOf(T, u)} :
            \A r \in TestsOf(T, u) : r.created_at <= t

\* the limit is one test too high
DailyLimitReached_Over(c) == c > MAX_DAILY_TESTS

\* if c >= MAX_DAILY_TESTS: return False, "Daily limit reached"
DailyLimitReached(c) == c >= MAX_DAILY_TESTS

\* "ok", or the reason of the rejection; the daily limit is checked first
can_add_test(T, u, t) ==
    IF DailyLimitReached(tests_today_count(T, u, t)) THEN "daily_limit"
    ELSE IF LastTestAt(T, u) # NULL /\ t - LastTestAt(T, u) < COOLDOWN_MINUTES THEN "cooldown"
    ELSE "ok"

\* if c < SAVER_EARN_THRESHOLD: return None
ThresholdReached(c) == c >= SAVER_EARN_THRESHOLD

\* the date check compares with the wrong day
AlreadyAwarded_Yesterday(awarded, today) == awarded = today - 1

\* if row.get("saver_awarded_date") == today_local: return None
AlreadyAwarded(awarded, today) == awarded = today

\* the award decision of maybe_award_streak_saver
AwardFires(c, awarded, today) == ThresholdReached(c) /\ ~AlreadyAwarded(awarded, today)

\* UPDATE users SET streak_savers = streak_savers + 1, saver_awarded_date = today
AwardWrite(U, u, today) ==
    [U EXCEPT ![u].streak_savers = @ + 1, ![u].saver_awarded_date = today]

\* users table after a whole maybe_award_streak_saver(u) call
AwardUsers(U, T, u, t) ==
    IF AwardFires(tests_today_count(T, u, t), U[u].saver_awarded_date, LocalDate(t))
    THEN AwardWrite(U, u, LocalDate(t)) ELSE U

\* set_user_state(user.id, state)
SetState(U, u, st) == [U EXCEPT ![u].state = st]

\* ------------------------------------------------------------------------
\* streak evaluation
\* ------------------------------------------------------------------------

\* does streak_days_with_saver spend a saver (savers: the balance the
\* function was handed, not necessarily the persisted one)
SaverUsed(dayset, today, savers) == dayset # {} /\ BridgeApplies(dayset, today, savers)

\* the streak length streak_days_with_saver returns
StreakLength(dayset, today, savers) ==
    IF dayset = {} THEN 0
    ELSE StreakWalk(WalkSet(dayset, today, SaverUsed(dayset, today, savers)), today)

\* app.py: the UPDATE is relative to the persisted balance
ConsumeApp(U, u) == [U EXCEPT ![u].streak_savers = DecrementSaver(@)]

\* stats.py: set_user_fields(user_id, {"streak_savers": savers}) with savers = current_savers - 1
ConsumeStats(U, u, current_savers) == [U EXCEPT ![u].streak_savers = current_savers - 1]

\* bookkeeping: the day and the streak of an evaluation that spent a saver
BridgedAfter(u, used, streak) ==
    IF used THEN [last_bridge EXCEPT ![u] = [day |-> LocalDate(now), streak |-> streak]]
    ELSE last_bridge

\* bookkeeping: how far the persisted balance of u went down in this step
ConsumedAfter(u, U2) ==
    [consumed EXCEPT ![u] = @ + Max(0, users[u].streak_savers - U2[u].streak_savers)]

\* ------------------------------------------------------------------------
\* request handlers, each run to completion
\* ------------------------------------------------------------------------
\* Each handler is the body of one branch of the webhook, from the point where
\* the branch is entered; which branch a message enters is the subject of the
\* dispatch section (Dispatch, Webhook) further down.

\* '/start' of a registered, approved user: streak_days_with_saver(user), then
\* fetch_user_stats(user) for the balance shown
HandleStart(u) ==
    LET days == StreakDays(tests, u)
        today == LocalDate(now)
        used == SaverUsed(days, today, users[u].streak_savers)
        U2 == IF used THEN ConsumeApp(users, u) ELSE users
    IN /\ users' = U2
       /\ consumed' = ConsumedAfter(u, U2)
       /\ last_bridge' = BridgedAfter(u, used, StreakLength(days, today, users[u].streak_savers))
       /\ spent' = [spent EXCEPT ![u] = IF used THEN @ + 1 ELSE @]
       /\ ret' = [NoRet EXCEPT !.op = "start", !.u = u,
                                !.streak = StreakLength(days, today, users[u].streak_savers),
                                !.used = used,
                                !.savers = U2[u].streak_savers]
       /\ UNCHANGED <<now, tests, next_test_id, earned, credited, pc, loc, goalVars, notifyVars, tzVars, dedupVars, txn, acctVars>>

\* menu text 'My Stats': the user row is re-read, then streak_days_with_saver(user);
\* the balance shown is user.streak_savers after the call
HandleMyStats(u) ==
    LET days == StreakDays(tests, u)
        today == LocalDate(now)
        used == SaverUsed(days, today, users[u].streak_savers)
        U2 == IF used THEN ConsumeApp(users, u) ELSE users
    IN /\ users[u].state = "none"
       /\ users' = U2
       /\ consumed' = ConsumedAfter(u, U2)
       /\ last_bridge' = BridgedAfter(u, used, StreakLength(days, today, users[u].streak_savers))
       /\ spent' = [spent EXCEPT ![u] = IF used THEN @ + 1 ELSE @]
       /\ ret' = [NoRet EXCEPT !.op = "my_stats", !.u = u,
                                !.streak = StreakLength(days, today, users[u].streak_savers),
                                !.used = used,
                                !.savers = IF used THEN users[u].streak_savers - 1
                                           ELSE users[u].streak_savers]
       /\ UNCHANGED <<now, tests, next_test_id, earned, credited, pc, loc, goalVars, notifyVars, tzVars, dedupVars, txn, acctVars>>

\* stats.streak_days_with_saver(user_id, current_savers), called with the
\* persisted balance of the user
CallStreak(u) ==
    LET days == StreakDays(tests, u)
        today == LocalDate(now)
        current_savers == users[u].streak_savers
        used == SaverUsed(days, today, current_savers)
        U2 == IF used THEN ConsumeStats(users, u, current_savers) ELSE users
    IN /\ users' = U2
       /\ consumed' = ConsumedAfter(u, U2)
       /\ last_bridge' = BridgedAfter(u, used, StreakLength(days, today, current_savers))
       /\ spent' = [spent EXCEPT ![u] = IF used THEN @ + 1 ELSE @]
       /\ ret' = [NoRet EXCEPT !.op = "streak", !.u = u,
                                !.streak = StreakLength(days, today, current_savers),
                                !.used = used,
                                !.savers = IF used THEN current_savers - 1 ELSE current_savers]
       /\ UNCHANGED <<now, tests, next_test_id, earned, credited, pc, loc, goalVars, notifyVars, tzVars, dedupVars, txn, acctVars>>

\* stats.maybe_award_streak_saver(user_id)
CallAward(u) ==
    LET U2 == AwardUsers(users, tests, u, now)
        note == U2 # users
    IN /\ users' = U2
       /\ earned' = [earned EXCEPT ![u] = IF note THEN @ + 1 ELSE @]
       /\ credited' = [credited EXCEPT ![u] = IF note THEN @ + 1 ELSE @]
       /\ ret' = [NoRet EXCEPT !.op = "award", !.u = u, !.note = note]
       /\ UNCHANGED <<now, tests, next_test_id, consumed, last_bridge, spent, pc, loc, goalVars, notifyVars, tzVars, dedupVars, txn, acctVars>>

\* menu text 'Record Math Score'
HandleRecordMenu(u) ==
    /\ users[u].state = "none"
    /\ users' = SetState(users, u, "awaiting_score")
    /\ ret' = [NoRet EXCEPT !.op = "menu_score", !.u = u]
    /\ UNCHANGED <<now, tests, next_test_id, consumed, last_bridge, spent, earned, credited, pc, loc, goalVars, notifyVars, tzVars, dedupVars, txn, acctVars>>

\* '/cancel' while a score is awaited
HandleCancel(u) ==
    /\ users[u].state = "awaiting_score"
    /\ users' = SetState(users, u, "none")
    /\ ret' = [NoRet EXCEPT !.op = "cancel", !.u = u]
    /\ UNCHANGED <<now, tests, next_test_id, consumed, last_bridge, spent, earned, credited, pc, loc, goalVars, notifyVars, tzVars, dedupVars, txn, acctVars>>

\* a text while a score is awaited: parse, range check, can_add_test,
\* add_math_score, set_user_state(None), maybe_award_streak_saver
ScoreFlow(u, score) ==
    /\ users[u].state = "awaiting_score"
    /\ IF ~ValidScore(score)
       THEN /\ ret' = [NoRet EXCEPT !.op = "score_invalid", !.u = u]
            /\ UNCHANGED <<users, tests, next_test_id, consumed, last_bridge, spent, earned, credited>>
       ELSE IF can_add_test(tests, u, now) # "ok"
       THEN /\ users' = SetState(users, u, "none")
            /\ ret' = [NoRet EXCEPT !.op = "score_rejected", !.u = u,
                                     !.text = can_add_test(tests, u, now)]
            /\ UNCHANGED <<tests, next_test_id, consumed, last_bridge, spent, earned, credited>>
       ELSE LET T2 == InsertTest(tests, u, score, next_test_id, now)
                U2 == SetState(CreditUser(users, u, score), u, "none")
                U3 == AwardUsers(U2, T2, u, now)
                note == U3 # U2
            IN /\ tests' = T2
               /\ next_test_id' = next_test_id + 1
               /\ users' = U3
               /\ consumed' = [consumed EXCEPT ![u] = 0]
               /\ UNCHANGED <<last_bridge, spent>>
               /\ earned' = [earned EXCEPT ![u] = IF note THEN @ + 1 ELSE @]
               /\ credited' = [credited EXCEPT ![u] = IF note THEN @ + 1 ELSE @]
               /\ ret' = [NoRet EXCEPT !.op = "score", !.u = u, !.note = note,
                                        !.test_id = next_test_id,
                                        !.prev_points = users[u].total_points,
                                        !.prev_count = users[u].tests_count]
    /\ UNCHANGED <<now, pc, loc, goalVars, notifyVars, tzVars, dedupVars, txn, acctVars>>

\* the score flow, for as long as the tests table of the model has room
HandleScore(u, score) ==
    /\ (ValidScore(score) /\ can_add_test(tests, u, now) = "ok") => next_test_id <= MaxTests + 1
    /\ ScoreFlow(u, score)

\* admin command '/add <telegram_id> <score>' for an existing user, sent by
\* an admin (the admin's own row plays no role and is not kept)
AdminAdd(u, score) ==
    /\ ValidScore(score) => next_test_id <= MaxTests + 1
    /\ IF ~ValidScore(score)
       THEN /\ ret' = [NoRet EXCEPT !.op = "add_invalid", !.u = u]
            /\ UNCHANGED <<users, tests, next_test_id, consumed, last_bridge, spent>>
       ELSE /\ tests' = InsertTest(tests, u, score, next_test_id, now)
            /\ next_test_id' = next_test_id + 1
            /\ users' = CreditUser(users, u, score)
            /\ consumed' = [consumed EXCEPT ![u] = 0]
            /\ UNCHANGED <<last_bridge, spent>>
            /\ ret' = [NoRet EXCEPT !.op = "admin_add", !.u = u, !.test_id = next_test_id,
                                     !.prev_points = users[u].total_points,
                                     !.prev_count = users[u].tests_count]
    /\ UNCHANGED <<now, earned, credited, pc, loc, goalVars, notifyVars, tzVars, dedupVars, txn, acctVars>>

\* admin command '/deltest <test_id>'
AdminDelTest(test_id) ==
    /\ tests' = DeleteTest(tests, test_id)
    /\ users' = RemoveUsers(users, tests, test_id)
    /\ ret' = [NoRet EXCEPT !.op = "deltest", !.u = Max(0, RemoveResult(tests, test_id)),
                             !.test_id = test_id,
                             !.undo = (ret.op \in AddOps /\ ret.test_id = test_id)]
    /\ UNCHANGED <<now, next_test_id, consumed, last_bridge, spent, earned, credited, pc, loc, goalVars, notifyVars, tzVars, dedupVars, txn, acctVars>>

\* The clock advances while no call is in progress (a call takes far less
\* than a clock step): with d = DayMinutes to the next local midnight, with a
\* smaller d by d minutes within the day.  The clock is only followed within
\* a day while a cooldown is running, the one thing that depends on it.  The
\* bookkeeping of the day is reset at midnight.
Tick(d) ==
    /\ \A p \in Procs : pc[p] = "idle"
    /\ IF d = DayMinutes
       THEN /\ LocalDate(now) < MaxDay
            /\ now' = (LocalDate(now) + 1) * DayMinutes
       ELSE /\ \E u \in Senders : /\ LastTestAt(tests, u) # NULL
                                   /\ now - LastTestAt(tests, u) < COOLDOWN_MINUTES
            /\ LocalDate(now + d) = LocalDate(now)
            /\ now' = now + d
    /\ IF LocalDate(now') # LocalDate(now)
       THEN /\ consumed' = [u \in Users |-> 0]
            /\ earned' = [u \in Users |-> 0]
       ELSE UNCHANGED <<consumed, earned>>
    /\ ret' = [NoRet EXCEPT !.op = "tick"]
    /\ UNCHANGED <<credited, last_bridge, spent, users, tests, next_test_id, pc, loc, goalVars, notifyVars, tzVars, dedupVars, txn, acctVars>>

Next ==
    \/ \E u \in Senders : HandleStart(u)
    \/ \E u \in Senders : HandleMyStats(u)
    \/ \E u \in Senders : CallStreak(u)
    \/ \E u \in Senders : CallAward(u)
    \/ \E u \in Senders : HandleRecordMenu(u)
    \/ \E u \in Senders : HandleCancel(u)
    \/ \E u \in Senders, score \in EngineScores : HandleScore(u, score)
    \/ \E u \in Senders, score \in EngineScores : AdminAdd(u, score)
    \/ Tick(DayMinutes)
    \/ Tick(COOLDOWN_MINUTES)

Spec == Init /\ [][Next]_vars

\* the score ledger: every score input, adds for both users, removals
NextLedger ==
    \/ \E u \in Users, score \in ScoreInputs : AdminAdd(u, score)
    \/ \E test_id \in 1..(MaxTests + 2) : AdminDelTest(test_id)
    \/ \E u \in Senders : HandleRecordMenu(u)
    \/ \E u \in Senders, score \in ScoreInputs : HandleScore(u, score)

SpecLedger == Init /\ [][NextLedger]_vars

\* ------------------------------------------------------------------------
\* concurrent calls, one step per storage statement / transaction
\* ------------------------------------------------------------------------

Return(p, r) ==
    /\ ret' = r
    /\ pc' = [pc EXCEPT ![p] = "idle"]
    /\ loc' = [loc EXCEPT ![p] = IdleLoc]

\* add_math_score: INSERT and UPDATE in one transaction
ConcAdd(p, u, score) ==
    /\ pc[p] = "idle"
    /\ next_test_id <= MaxTests + 1
    /\ ValidScore(score)
    /\ tests' = InsertTest(tests, u, score, next_test_id, now)
    /\ next_test_id' = next_test_id + 1
    /\ users' = CreditUser(users, u, score)
    /\ consumed' = [consumed EXCEPT ![u] = 0]
    /\ UNCHANGED <<last_bridge, spent>>
    /\ ret' = [NoRet EXCEPT !.op = "add", !.u = u, !.test_id = next_test_id,
                             !.prev_points = users[u].total_points,
                             !.prev_count = users[u].tests_count]
    /\ UNCHANGED <<now, earned, credited, pc, loc, goalVars, notifyVars, tzVars, dedupVars, txn, acctVars>>

\* maybe_award_streak_saver, statement 1: c = tests_today_count(user_id)
AwardCount(p, u) ==
    /\ pc[p] = "idle"
    /\ IF ThresholdReached(tests_today_count(tests, u, now))
       THEN /\ pc' = [pc EXCEPT ![p] = "aw_read"]
            /\ loc' = [loc EXCEPT ![p] = [IdleLoc EXCEPT !.u = u]]
            /\ UNCHANGED ret
       ELSE Return(p, [NoRet EXCEPT !.op = "award", !.u = u])
    /\ UNCHANGED <<now, users, tests, next_test_id, consumed, last_bridge, spent, earned, credited, goalVars, notifyVars, tzVars, dedupVars, txn, acctVars>>

\* maybe_award_streak_saver, statement 2: SELECT saver_awarded_date
AwardRead(p) ==
    /\ pc[p] = "aw_read"
    /\ IF AlreadyAwarded(users[loc[p].u].saver_awarded_date, LocalDate(now))
       THEN Return(p, [NoRet EXCEPT !.op = "award", !.u = loc[p].u])
       ELSE /\ pc' = [pc EXCEPT ![p] = "aw_write"]
            /\ UNCHANGED <<ret, loc>>
    /\ UNCHANGED <<now, users, tests, next_test_id, consumed, last_bridge, spent, earned, credited, goalVars, notifyVars, tzVars, dedupVars, txn, acctVars>>

\* maybe_award_streak_saver, statement 3: increment the balance and stamp the date
AwardCommit(p) ==
    /\ pc[p] = "aw_write"
    /\ users' = AwardWrite(users, loc[p].u, LocalDate(now))
    /\ earned' = [earned EXCEPT ![loc[p].u] = @ + 1]
    /\ credited' = [credited EXCEPT ![loc[p].u] = @ + 1]
    /\ Return(p, [NoRet EXCEPT !.op = "award", !.u = loc[p].u, !.note = TRUE])
    /\ UNCHANGED <<now, tests, next_test_id, consumed, last_bridge, spent, goalVars, notifyVars, tzVars, dedupVars, txn, acctVars>>

\* streak evaluation, statement 1: the balance the function will work with is
\* read (app.py: the user row loaded by the request; stats.py: current_savers)
StreakLoad(p, u, variant) ==
    /\ pc[p] = "idle"
    /\ pc' = [pc EXCEPT ![p] = "st_days"]
    /\ loc' = [loc EXCEPT ![p] = [IdleLoc EXCEPT !.u = u, !.variant = variant,
                                                !.savers = users[u].streak_savers]]
    /\ UNCHANGED <<now, users, tests, next_test_id, ret, consumed, last_bridge, spent, earned, credited, goalVars, notifyVars, tzVars, dedupVars, txn, acctVars>>

\* streak evaluation, statement 2: SELECT DISTINCT days, then the decision
StreakSelect(p) ==
    LET u == loc[p].u
        days == StreakDays(tests, u)
        today == LocalDate(now)
        streak == StreakLength(days, today, loc[p].savers)
    IN /\ pc[p] = "st_days"
       /\ IF SaverUsed(days, today, loc[p].savers)
          THEN /\ pc' = [pc EXCEPT ![p] = "st_write"]
               /\ loc' = [loc EXCEPT ![p].streak = streak]
               /\ UNCHANGED ret
          ELSE Return(p, [NoRet EXCEPT !.op = "streak", !.u = u, !.streak = streak,
                                       !.savers = loc[p].savers])
       /\ UNCHANGED <<now, users, tests, next_test_id, consumed, last_bridge, spent, earned, credited, goalVars, notifyVars, tzVars, dedupVars, txn, acctVars>>

\* streak evaluation, statement 3: the decremented balance is persisted
StreakCommit(p) ==
    LET u == loc[p].u
        U2 == IF loc[p].variant = "app" THEN ConsumeApp(users, u)
              ELSE ConsumeStats(users, u, loc[p].savers)
    IN /\ pc[p] = "st_write"
       /\ users' = U2
       /\ consumed' = ConsumedAfter(u, U2)
       /\ last_bridge' = BridgedAfter(u, TRUE, loc[p].streak)
       /\ spent' = [spent EXCEPT ![u] = IF TRUE THEN @ + 1 ELSE @]
       /\ Return(p, [NoRet EXCEPT !.op = "streak", !.u = u, !.streak = loc[p].streak,
                                   !.used = TRUE, !.savers = loc[p].savers - 1])
       /\ UNCHANGED <<now, tests, next_test_id, earned, credited, goalVars, notifyVars, tzVars, dedupVars, txn, acctVars>>

NextConc ==
    \/ \E p \in Procs, u \in Senders, score \in EngineScores : ConcAdd(p, u, score)
    \/ \E p \in Procs, u \in Senders : AwardCount(p, u)
    \/ \E p \in Procs : AwardRead(p)
    \/ \E p \in Procs : AwardCommit(p)
    \/ \E p \in Procs, u \in Senders, variant \in {"app", "stats"} : StreakLoad(p, u, variant)
    \/ \E p \in Procs : StreakSelect(p)
    \/ \E p \in Procs : StreakCommit(p)
    \/ Tick(DayMinutes)

SpecConc == Init /\ [][NextConc]_vars

\* ------------------------------------------------------------------------
\* storage failures: every statement of a call may raise; a `with db()` block
\* that is left by an exception rolls its transaction back
\* ------------------------------------------------------------------------

\* the statements of a failed transaction stay in force
AfterRollback_KeepsWrites(U, u, pending) ==
    IF pending = <<>> THEN U ELSE [U EXCEPT ![u] = pending[1]]

\* psycopg: leaving `with db() as conn` by an exception rolls back
AfterRollback(U, u, pending) == U

\* no other open transaction has written the row of u (row lock)
RowFree(p, u) == \A q \in Procs \ {p} : txn[q] = <<>> \/ loc[q].u # u

\* the first UPDATE of the award, inside the transaction.
\* stats.py (set_user_fields): UPDATE users SET streak_savers = COALESCE(streak_savers,0) + 1;
\* app.py: one UPDATE that increments and stamps
AwardUpdate(p, variant) ==
    LET u == loc[p].u
    IN /\ pc[p] = "aw_write"
       /\ RowFree(p, u)
       /\ IF variant = "app"
          THEN /\ txn' = [txn EXCEPT ![p] = <<AwardWrite(users, u, LocalDate(now))[u]>>]
               /\ pc' = [pc EXCEPT ![p] = "aw_commit"]
          ELSE /\ txn' = [txn EXCEPT ![p] = <<[users[u] EXCEPT !.streak_savers = @ + 1]>>]
               /\ pc' = [pc EXCEPT ![p] = "aw_stamp"]
       /\ UNCHANGED <<now, users, tests, next_test_id, ret, consumed, last_bridge, spent, earned, credited, loc,
                      goalVars, notifyVars, tzVars, dedupVars, acctVars>>

\* stats.py (set_user_fields), second UPDATE: SET saver_awarded_date = today
AwardStamp(p) ==
    /\ pc[p] = "aw_stamp"
    /\ txn' = [txn EXCEPT ![p] = <<[txn[p][1] EXCEPT !.saver_awarded_date = LocalDate(now)]>>]
    /\ pc' = [pc EXCEPT ![p] = "aw_commit"]
    /\ UNCHANGED <<now, users, tests, next_test_id, ret, consumed, last_bridge, spent, earned, credited, loc,
                   goalVars, notifyVars, tzVars, dedupVars, acctVars>>

\* conn.commit(), then the 'earned' note is returned
AwardTxnCommit(p) ==
    LET u == loc[p].u
    IN /\ pc[p] = "aw_commit"
       /\ users' = [users EXCEPT ![u] = txn[p][1]]
       /\ txn' = [txn EXCEPT ![p] = <<>>]
       /\ earned' = [earned EXCEPT ![u] = @ + 1]
       /\ credited' = [credited EXCEPT ![u] = @ + 1]
       /\ Return(p, [NoRet EXCEPT !.op = "award", !.u = u, !.note = TRUE])
       /\ UNCHANGED <<now, tests, next_test_id, consumed, last_bridge, spent, goalVars, notifyVars, tzVars, dedupVars, acctVars>>

\* add_math_score waits for the row
ConcAddLocked(p, u, score) ==
    /\ RowFree(p, u)
    /\ ConcAdd(p, u, score)

\* the saver decrement of a streak evaluation (one UPDATE and its commit)
\* waits for the row
StreakCommitLocked(p) ==
    /\ pc[p] = "st_write"
    /\ RowFree(p, loc[p].u)
    /\ StreakCommit(p)

\* the next statement of call p (or its commit) raises: the exception leaves
\* the function, nothing catches it and nothing is tried again.
\* ret.savers: the balance the lost transaction had written
StorageFail(p) ==
    LET u == loc[p].u
    IN /\ pc[p] # "idle"
       /\ users' = AfterRollback(users, u, txn[p])
       /\ txn' = [txn EXCEPT ![p] = <<>>]
       /\ Return(p, [NoRet EXCEPT !.op = "error", !.u = u,
                                   !.savers = IF txn[p] = <<>> THEN 0
                                              ELSE txn[p][1].streak_savers])
       /\ UNCHANGED <<now, tests, next_test_id, consumed, last_bridge, spent, earned, credited, goalVars, notifyVars, tzVars, dedupVars, acctVars>>

NextFail ==
    \/ \E p \in Procs, u \in Senders, score \in EngineScores : ConcAddLocked(p, u, score)
    \/ \E p \in Procs, u \in Senders : AwardCount(p, u)
    \/ \E p \in Procs : AwardRead(p)
    \/ \E p \in Procs, variant \in {"app", "stats"} : AwardUpdate(p, variant)
    \/ \E p \in Procs : AwardStamp(p)
    \/ \E p \in Procs : AwardTxnCommit(p)
    \/ \E p \in Procs, u \in Senders, variant \in {"app", "stats"} : StreakLoad(p, u, variant)
    \/ \E p \in Procs : StreakSelect(p)
    \/ \E p \in Procs : StreakCommitLocked(p)
    \/ \E p \in Procs : StorageFail(p)
    \/ Tick(DayMinutes)

SpecFail == Init /\ [][NextFail]_vars

\* ------------------------------------------------------------------------
\* user records: get_or_create_user, one step per storage statement
\* ------------------------------------------------------------------------

\* ADMIN_TELEGRAM_IDS of the deployment; 101 is a student
ADMIN_IDS == {102}
TelegramIds == {101, 102}
\* a private chat has the id of its user; 7 stands for any other chat id
ChatIds == {101, 102, 7}

\* SQL NULL in a text column
NullText == "NULL"

\* every sender passes the admin check
is_admin_Anyone(tg_id) == TRUE

\* return tg_id in ADMIN_IDS
is_admin(tg_id) == tg_id \in ADMIN_IDS

\* INSERT INTO users (telegram_id, chat_id, reg_step, approved) VALUES (tg, chat, 1, is_admin)
NewAccount(id, tg, chat) ==
    [id |-> id, telegram_id |-> tg, chat_id |-> chat,
     first_name |-> NullText, surname |-> NullText, nickname |-> NullText,
     email |-> NullText, registered_at |-> NULL, reg_step |-> 1,
     approved |-> is_admin(tg), banned |-> FALSE,
     state |-> NullText, goal_math |-> NULL,
     total_points |-> 0, tests_count |-> 0,
     streak_savers |-> 0, saver_awarded_date |-> NULL,
     pref_hour |-> NULL, pref_minute |-> NULL, last_nudge_at |-> NULL]

\* SELECT * FROM users WHERE telegram_id = tg
FindAccount(A, tg) == {r \in A : r.telegram_id = tg}

\* the column is not declared UNIQUE
UniqueViolation_Never(A, tg) == FALSE

\* telegram_id BIGINT UNIQUE NOT NULL: the INSERT raises when the id is there
UniqueViolation(A, tg) == FindAccount(A, tg) # {}

\* UPDATE users SET chat_id = chat WHERE telegram_id = tg
UpdateChat(A, tg, chat) ==
    {IF r.telegram_id = tg THEN [r EXCEPT !.chat_id = chat] ELSE r : r \in A}

\* UPDATE users SET approved = TRUE WHERE telegram_id = tg
ApproveAdmin(A, tg) ==
    {IF r.telegram_id = tg THEN [r EXCEPT !.approved = TRUE] ELSE r : r \in A}

\* DELETE FROM users WHERE telegram_id = tg
DeleteAccount(A, tg) == {r \in A : r.telegram_id # tg}

\* statement 1: SELECT * FROM users WHERE telegram_id = tg
GocSelect(p, tg, chat) ==
    /\ pc[p] = "idle"
    /\ loc' = [loc EXCEPT ![p] = [IdleLoc EXCEPT !.telegram_id = tg, !.chat_id = chat]]
    /\ pc' = [pc EXCEPT ![p] =
                IF FindAccount(accounts, tg) = {} THEN "goc_insert"
                ELSE IF \E r \in FindAccount(accounts, tg) : r.chat_id # chat THEN "goc_chat"
                ELSE "goc_approve"]
    /\ UNCHANGED <<now, users, tests, next_test_id, ret, consumed, last_bridge, spent, earned, credited,
                   goalVars, notifyVars, tzVars, dedupVars, txn, acctVars>>

\* the row was found with another chat_id: UPDATE, commit, SELECT again; a
\* row that is gone by now makes the rest of the call raise
GocUpdateChat(p) ==
    /\ pc[p] = "goc_chat"
    /\ accounts' = UpdateChat(accounts, loc[p].telegram_id, loc[p].chat_id)
    /\ IF FindAccount(accounts, loc[p].telegram_id) = {}
       THEN Return(p, [NoRet EXCEPT !.op = "error"])
       ELSE /\ pc' = [pc EXCEPT ![p] = "goc_approve"]
            /\ UNCHANGED <<ret, loc>>
    /\ UNCHANGED <<now, users, tests, next_test_id, consumed, last_bridge, spent, earned, credited,
                   goalVars, notifyVars, tzVars, dedupVars, txn, next_user_id>>

\* the row was found: an admin who is not approved is approved (UPDATE,
\* commit, SELECT again), then the row is returned
GocApprove(p) ==
    LET tg == loc[p].telegram_id
        rows == FindAccount(accounts, tg)
    IN /\ pc[p] = "goc_approve"
       /\ IF rows = {}
          THEN /\ Return(p, [NoRet EXCEPT !.op = "error"])
               /\ UNCHANGED accounts
          ELSE /\ accounts' = IF is_admin(tg) THEN ApproveAdmin(accounts, tg) ELSE accounts
               /\ Return(p, [NoRet EXCEPT !.op = "user",
                                           !.u = (CHOOSE r \in rows : TRUE).id])
       /\ UNCHANGED <<now, users, tests, next_test_id, consumed, last_bridge, spent, earned, credited,
                      goalVars, notifyVars, tzVars, dedupVars, txn, next_user_id>>

\* no row was found: INSERT ... RETURNING *, commit
GocInsert(p) ==
    LET tg == loc[p].telegram_id
    IN /\ pc[p] = "goc_insert"
       /\ IF UniqueViolation(accounts, tg)
          THEN /\ Return(p, [NoRet EXCEPT !.op = "error"])
               /\ UNCHANGED acctVars
          ELSE /\ next_user_id <= MaxUserId
               /\ accounts' = accounts \cup {NewAccount(next_user_id, tg, loc[p].chat_id)}
               /\ next_user_id' = next_user_id + 1
               /\ Return(p, [NoRet EXCEPT !.op = "user", !.u = next_user_id])
       /\ UNCHANGED <<now, users, tests, next_test_id, consumed, last_bridge, spent, earned, credited,
                      goalVars, notifyVars, tzVars, dedupVars, txn>>

\* tests.user_id REFERENCES users(id) ON DELETE CASCADE
CascadeTests(T, A, tg) == {t \in T : t.user_id \notin {r.id : r \in FindAccount(A, tg)}}

\* admin command '/delete <telegram_id>': hard_delete_user
HardDelete(tg) ==
    /\ accounts' = DeleteAccount(accounts, tg)
    /\ tests' = CascadeTests(tests, accounts, tg)
    /\ ret' = [NoRet EXCEPT !.op = "delete"]
    /\ UNCHANGED <<now, users, next_test_id, consumed, last_bridge, spent, earned, credited, pc, loc,
                   goalVars, notifyVars, tzVars, dedupVars, txn, next_user_id>>

\* the users table is empty
InitAccounts ==
    /\ Init
    /\ users[1].streak_savers = 0

NextAccounts ==
    \/ \E p \in Procs, tg \in TelegramIds, chat \in ChatIds : GocSelect(p, tg, chat)
    \/ \E p \in Procs : GocUpdateChat(p)
    \/ \E p \in Procs : GocApprove(p)
    \/ \E p \in Procs : GocInsert(p)
    \/ \E tg \in TelegramIds : HardDelete(tg)

SpecAccounts == InitAccounts /\ [][NextAccounts]_vars

\* ------------------------------------------------------------------------
\* the webhook's dispatch of a private text message, and registration
\* ------------------------------------------------------------------------

\* the student whose messages are followed
RegSenders == {101}

\* message texts after text_or_caption: the command, a name, an email
\* address, a menu button, and the empty text of a message without one
START == "/start"
MY_STATS == "My Stats"
TextInputs == {START, "Ann", "ann@example.com", MY_STATS, ""}

\* texts an admin sends: commands with their arguments, and a plain text
AdminCommands == {"/approve 101", "/reject 101", "/ban 101", "/unban 101",
                  "/delete 101", "/add 101 44", "/deltest 1",
                  "/broadcast hi", "/broadcast"}
CANCEL == "/cancel"

\* incoming.lower().startswith("/start") and incoming.startswith("/")
IsStart(text) == text = START
IsCommand(text) == text \in AdminCommands \cup {START, CANCEL}

\* users.state of an admin who was asked for the broadcast text
ADMIN_BROADCAST == "admin_broadcast"

\* EMAIL_RE.match(text)
EmailMatches(text) == text = "ann@example.com"

\* get_or_create_user run from its first statement to its last
GetOrCreate(A, id, tg, chat) ==
    IF FindAccount(A, tg) = {}
    THEN A \cup {NewAccount(id, tg, chat)}
    ELSE LET A1 == UpdateChat(A, tg, chat)
         IN IF is_admin(tg) THEN ApproveAdmin(A1, tg) ELSE A1

\* row_to_user: reg_step = int(row.get("reg_step") or 1)
RegStepOf(row) == IF row.reg_step = 0 THEN 1 ELSE row.reg_step

\* UPDATE users SET <fields> WHERE id = <id>
SetAccount(A, id, new) == {IF r.id = id THEN new ELSE r : r \in A}

\* registered_at is not written
Finalize_NoTimestamp(r) == [r EXCEPT !.reg_step = 0, !.approved = FALSE]

\* finalize_registration: registered_at = now(), reg_step = 0, approved = FALSE
Finalize(r) == [r EXCEPT !.registered_at = now, !.reg_step = 0, !.approved = FALSE]

\* handle_registration(user, chat_id, incoming): the table afterwards
RegistrationWrites(A, row, text) ==
    LET step == RegStepOf(row)
        Name1 == [row EXCEPT !.first_name = text, !.reg_step = 2]
        Name2 == [row EXCEPT !.surname = text, !.reg_step = 3]
        Name3 == [row EXCEPT !.nickname = text, !.reg_step = 4]
        Mail == Finalize([row EXCEPT !.email = text])
    IN IF step \in 1..4 /\ text = "" THEN A
       ELSE IF step = 1 THEN SetAccount(A, row.id, Name1)
       ELSE IF step = 2 THEN SetAccount(A, row.id, Name2)
       ELSE IF step = 3 THEN SetAccount(A, row.id, Name3)
       ELSE IF step = 4 /\ EmailMatches(text) THEN SetAccount(A, row.id, Mail)
       ELSE A

\* handle_registration(user, chat_id, incoming): what the user is sent
RegistrationReply(row, text) ==
    LET step == RegStepOf(row)
    IN IF step \in 1..4 /\ text = "" THEN "reg_prompt"
       ELSE IF step \in 1..3 THEN "reg_step"
       ELSE IF step = 4 /\ EmailMatches(text) THEN "reg_done"
       ELSE IF step = 4 THEN "reg_invalid"
       ELSE "none"

\* the registration and approval checks are missing
Dispatch_Ungated(row, text) ==
    IF row.banned THEN "ignored"
    ELSE IF is_admin(row.telegram_id) /\ IsCommand(text) THEN "admin_cmd"
    ELSE IF row.state = ADMIN_BROADCAST /\ is_admin(row.telegram_id) THEN "admin_text"
    ELSE IF IsStart(text) THEN "welcome_back"
    ELSE "menu"

\* the branch of the webhook that handles text from the user of this row
Dispatch(row, text) ==
    LET in_registration == RegStepOf(row) # 0 \/ row.registered_at = NULL
    IN IF row.banned THEN "ignored"
       ELSE IF is_admin(row.telegram_id) /\ IsCommand(text) THEN "admin_cmd"
       ELSE IF row.state = ADMIN_BROADCAST /\ is_admin(row.telegram_id) THEN "admin_text"
       ELSE IF IsStart(text)
            THEN IF in_registration THEN RegistrationReply(row, "")
                 ELSE IF ~row.approved THEN "waiting"
                 ELSE "welcome_back"
       ELSE IF in_registration THEN RegistrationReply(row, text)
       ELSE IF ~row.approved THEN "waiting"
       ELSE "menu"

\* what the handling branch writes
DispatchWrites(A, row, text) ==
    LET in_registration == RegStepOf(row) # 0 \/ row.registered_at = NULL
    IN IF row.banned THEN A
       ELSE IF is_admin(row.telegram_id) /\ IsCommand(text) THEN A
       ELSE IF row.state = ADMIN_BROADCAST /\ is_admin(row.telegram_id) THEN A
       ELSE IF IsStart(text)
            THEN IF in_registration THEN RegistrationWrites(A, row, "") ELSE A
       ELSE IF in_registration THEN RegistrationWrites(A, row, text)
       ELSE A

\* the update is the next one Telegram hands out
IsNewUpdate(update_id) == update_id = last_update.update_id + 1

\* Telegram delivers the last update once more, with the same content
IsRedelivery(update_id, text) ==
    /\ update_id = last_update.update_id
    /\ text = last_update.text
    /\ last_update.handled < MaxDeliveries

\* bookkeeping: the deliveries of the update that the webhook acted on
DeliveredAfter(update_id, text, acted) ==
    [update_id |-> update_id, text |-> text,
     handled |-> (IF IsNewUpdate(update_id) THEN 0 ELSE last_update.handled)
                 + (IF acted THEN 1 ELSE 0)]

\* POST /webhook with update update_id, a private text message from tg; the
\* handler reads message.from, message.chat and the text, never the update_id
Webhook(update_id, tg, text) ==
    LET A1 == GetOrCreate(accounts, next_user_id, tg, tg)
        row == CHOOSE r \in A1 : r.telegram_id = tg
    IN /\ IsNewUpdate(update_id) \/ IsRedelivery(update_id, text)
       /\ last_update' = DeliveredAfter(update_id, text, Dispatch(row, text) # "ignored")
       /\ FindAccount(accounts, tg) = {} => next_user_id <= MaxUserId
       /\ next_user_id' = IF FindAccount(accounts, tg) = {} THEN next_user_id + 1
                          ELSE next_user_id
       /\ accounts' = DispatchWrites(A1, row, text)
       /\ ret' = [NoRet EXCEPT !.op = Dispatch(row, text), !.u = row.id, !.text = text,
                                !.update_id = update_id]
       /\ UNCHANGED <<now, users, tests, next_test_id, consumed, last_bridge, spent, earned, credited, pc, loc,
                      goalVars, notifyVars, tzVars, processed, accepted, txn>>

\* registered_at is overwritten
ApprovedRow_Restamped(r, approved) ==
    [r EXCEPT !.approved = approved, !.reg_step = 0, !.state = NullText,
              !.registered_at = now]

\* SET approved = %s, reg_step = 0, state = NULL,
\*     registered_at = COALESCE(registered_at, now())
ApprovedRow(r, approved) ==
    [r EXCEPT !.approved = approved, !.reg_step = 0, !.state = NullText,
              !.registered_at = IF r.registered_at = NULL THEN now ELSE r.registered_at]

\* records still in the registration steps are not touched
ApproveAccount_RegisteredOnly(A, tg, approved) ==
    {IF r.telegram_id = tg /\ r.reg_step = 0 THEN ApprovedRow(r, approved) ELSE r : r \in A}

\* UPDATE users SET ... WHERE telegram_id = tg
ApproveAccount(A, tg, approved) ==
    {IF r.telegram_id = tg THEN ApprovedRow(r, approved) ELSE r : r \in A}

\* approve_user_by_telegram_id, from the approve/reject buttons and commands
ApproveUser(tg, approved) ==
    /\ accounts' = ApproveAccount(accounts, tg, approved)
    /\ ret' = [NoRet EXCEPT !.op = "approve", !.note = approved,
                             !.u = tg,
                             !.row = IF FindAccount(accounts, tg) = {} THEN 0
                                     ELSE (CHOOSE r \in FindAccount(accounts, tg) : TRUE).id]
    /\ UNCHANGED <<now, users, tests, next_test_id, consumed, last_bridge, spent, earned, credited, pc, loc,
                   goalVars, notifyVars, tzVars, dedupVars, txn, next_user_id>>

\* ban_user_by_telegram_id, from '/ban' and '/unban'
BanUser(tg, banned) ==
    /\ accounts' = {IF r.telegram_id = tg THEN [r EXCEPT !.banned = banned] ELSE r
                    : r \in accounts}
    /\ ret' = [NoRet EXCEPT !.op = "ban", !.note = banned]
    /\ UNCHANGED <<now, users, tests, next_test_id, consumed, last_bridge, spent, earned, credited, pc, loc,
                   goalVars, notifyVars, tzVars, dedupVars, txn, next_user_id>>

NextReg ==
    \/ \E update_id \in UpdateIds, tg \in RegSenders, text \in TextInputs :
          Webhook(update_id, tg, text)
    \/ \E tg \in RegSenders, approved \in BOOLEAN : ApproveUser(tg, approved)
    \/ \E tg \in RegSenders, banned \in BOOLEAN : BanUser(tg, banned)
    \/ \E tg \in RegSenders : HardDelete(tg)

SpecReg == InitAccounts /\ [][NextReg]_vars

\* ------------------------------------------------------------------------
\* update deduplication: mark_update_processed, one step per statement
\* ------------------------------------------------------------------------

\* the ids mark_update_processed is called with
MarkIds == 1..3

\* update_id is not a key of processed_updates
DuplicateKey_Never(P, update_id) == FALSE

\* update_id BIGINT PRIMARY KEY: the INSERT raises when the id is there
DuplicateKey(P, update_id) == update_id \in P

\* another open transaction has inserted the id and not yet committed: the
\* INSERT waits for it
InsertPending(p, update_id) ==
    \E q \in Procs \ {p} : pc[q] = "mu_commit" /\ loc[q].update_id = update_id

\* the call starts: with db() as conn
MarkCall(p, update_id) ==
    /\ pc[p] = "idle"
    /\ pc' = [pc EXCEPT ![p] = "mu_insert"]
    /\ loc' = [loc EXCEPT ![p] = [IdleLoc EXCEPT !.update_id = update_id]]
    /\ UNCHANGED <<now, users, tests, next_test_id, ret, consumed, last_bridge, spent, earned, credited,
                   goalVars, notifyVars, tzVars, txn, acctVars, dedupVars>>

\* INSERT INTO processed_updates(update_id); on an exception: rollback,
\* return False
MarkInsert(p) ==
    LET update_id == loc[p].update_id
    IN /\ pc[p] = "mu_insert"
       /\ ~InsertPending(p, update_id)
       /\ IF DuplicateKey(processed, update_id)
          THEN Return(p, [NoRet EXCEPT !.op = "mark", !.update_id = update_id,
                                       !.note = FALSE])
          ELSE /\ pc' = [pc EXCEPT ![p] = "mu_commit"]
               /\ UNCHANGED <<ret, loc>>
       /\ UNCHANGED <<now, users, tests, next_test_id, consumed, last_bridge, spent, earned, credited,
                      goalVars, notifyVars, tzVars, txn, acctVars, dedupVars>>

\* conn.commit(); return True
MarkCommit(p) ==
    LET update_id == loc[p].update_id
    IN /\ pc[p] = "mu_commit"
       /\ processed' = processed \cup {update_id}
       /\ accepted' = [accepted EXCEPT ![update_id] = @ + 1]
       /\ Return(p, [NoRet EXCEPT !.op = "mark", !.update_id = update_id, !.note = TRUE])
       /\ UNCHANGED <<now, users, tests, next_test_id, consumed, last_bridge, spent, earned, credited,
                      goalVars, notifyVars, tzVars, txn, acctVars, last_update>>

NextDedup ==
    \/ \E p \in Procs, update_id \in MarkIds : MarkCall(p, update_id)
    \/ \E p \in Procs : MarkInsert(p)
    \/ \E p \in Procs : MarkCommit(p)

SpecDedup == InitAccounts /\ [][NextDedup]_vars

\* ------------------------------------------------------------------------
\* the rate limit of the score flow
\* ------------------------------------------------------------------------

\* the largest tests.id of the rate limit specifications
MaxRateId == 8

\* tests the user has logged today before the first step
LoggedInputs == {0, 5, 6}
\* minutes since the newest of them
SinceInputs == {0, COOLDOWN_MINUTES - 1, COOLDOWN_MINUTES}

\* n tests of user u on day 1, COOLDOWN_MINUTES apart, in the other user's table
LoggedTests(u, n) ==
    {[id |-> k + 1, user_id |-> u, math_score |-> MAX_SCORE,
      created_at |-> DayMinutes + COOLDOWN_MINUTES * (k - 1)] : k \in 1..n}
    \cup {[id |-> 1, user_id |-> 2, math_score |-> MAX_SCORE, created_at |-> 0]}

\* the user has logged n tests today through the score flow, each as soon as
\* the cooldown allowed, and the third one earned a saver
InitRate ==
    /\ \E n \in LoggedInputs, since \in SinceInputs :
         /\ n = 0 => since = 0
         /\ now = DayMinutes + COOLDOWN_MINUTES * Max(0, n - 1) + since
         /\ tests = LoggedTests(1, n)
         /\ next_test_id = n + 2
         /\ users = [u \in Users |->
                       IF u \in Senders
                       THEN [streak_savers |-> IF ThresholdReached(n) THEN 1 ELSE 0,
                             saver_awarded_date |-> IF ThresholdReached(n) THEN 1 ELSE NULL,
                             total_points |-> n * MAX_SCORE, tests_count |-> n,
                             state |-> "none", goal_math |-> NULL]
                       ELSE [streak_savers |-> 0, saver_awarded_date |-> NULL,
                             total_points |-> MAX_SCORE, tests_count |-> 1, state |-> "none", goal_math |-> NULL]]
         /\ earned = [u \in Users |-> IF u \in Senders /\ ThresholdReached(n) THEN 1 ELSE 0]
    /\ ret = NoRet
    /\ consumed = [u \in Users |-> 0]
    /\ last_bridge = [u \in Users |-> NoBridge]
    /\ credited = [u \in Users |-> users[u].streak_savers]
    /\ spent = [u \in Users |-> 0]
    /\ pc = [p \in Procs |-> "idle"]
    /\ loc = [p \in Procs |-> IdleLoc]
    /\ history = <<>>
    /\ goal = NULL
    /\ estimate = NoEstimate
    /\ zone = UTCZone
    /\ event_at = NULL
    /\ bounds = <<>>
    /\ txn = [p \in Procs |-> <<>>]
    /\ accounts = {}
    /\ next_user_id = 1
    /\ processed = {}
    /\ accepted = [id \in UpdateIds |-> 0]
    /\ last_update = NoUpdate
    /\ outbox = {}
    /\ tick = NoTick
    /\ nudges = [id \in 1..MaxUserId |-> 0]

\* the score flow, for as long as the tests table of the model has room
SubmitScore(u, score) ==
    /\ next_test_id <= MaxRateId
    /\ ScoreFlow(u, score)

NextRate ==
    \/ \E u \in Senders : HandleRecordMenu(u)
    \/ \E u \in Senders : HandleCancel(u)
    \/ \E u \in Senders, score \in EngineScores : SubmitScore(u, score)
    \/ Tick(COOLDOWN_MINUTES - 1)
    \/ Tick(COOLDOWN_MINUTES)
    \/ Tick(DayMinutes)

SpecRate == InitRate /\ [][NextRate]_vars

\* ------------------------------------------------------------------------
\* score and goal texts: int(txt) and the range checks
\* ------------------------------------------------------------------------

\* texts sent while a number is awaited, after strip(): not a number, a
\* decimal, values on both sides of each end of the range, a signed value
NumberTexts == {"abc", "4.5", "-5", "0", "44", "45", "+44"}

\* int(txt) raises ValueError
IsInt(text) == text \in {"-5", "0", "44", "45", "+44"}

\* int(txt)
IntValue(text) ==
    CASE text = "-5" -> 0 - 5
      [] text = "0" -> 0
      [] text = "44" -> 44
      [] text = "45" -> 45
      [] text = "+44" -> 44

\* the upper end of the goal range is not checked
ValidGoal_NoUpper(g) == g >= MIN_SCORE

\* if g < 0 or g > 44: raise ValueError()
ValidGoal(g) == g >= MIN_SCORE /\ g <= MAX_SCORE

\* a text that is not a number while a score is awaited: the prompt is sent
\* again and nothing is written
ScoreNotInt(u) ==
    /\ users[u].state = "awaiting_score"
    /\ ret' = [NoRet EXCEPT !.op = "score_invalid", !.u = u]
    /\ UNCHANGED <<now, users, tests, next_test_id, consumed, last_bridge, spent, earned, credited, pc, loc,
                   goalVars, notifyVars, tzVars, dedupVars, txn, acctVars>>

\* a text while a score is awaited
ScoreText(u, text) ==
    IF IsInt(text) THEN HandleScore(u, IntValue(text)) ELSE ScoreNotInt(u)

\* menu text 'Set Goal'
HandleGoalMenu(u) ==
    /\ users[u].state = "none"
    /\ users' = SetState(users, u, "awaiting_goal")
    /\ ret' = [NoRet EXCEPT !.op = "menu_goal", !.u = u]
    /\ UNCHANGED <<now, tests, next_test_id, consumed, last_bridge, spent, earned, credited, pc, loc,
                   goalVars, notifyVars, tzVars, dedupVars, txn, acctVars>>

\* a text while a goal is awaited: '/cancel', or parse, range check,
\* set_user_field(goal_math), set_user_state(None)
GoalText(u, text) ==
    /\ users[u].state = "awaiting_goal"
    /\ IF text = CANCEL
       THEN /\ users' = SetState(users, u, "none")
            /\ ret' = [NoRet EXCEPT !.op = "cancel", !.u = u]
       ELSE IF IsInt(text) /\ ValidGoal(IntValue(text))
       THEN /\ users' = SetState([users EXCEPT ![u].goal_math = IntValue(text)], u, "none")
            /\ ret' = [NoRet EXCEPT !.op = "goal", !.u = u]
       ELSE /\ ret' = [NoRet EXCEPT !.op = "goal_invalid", !.u = u]
            /\ UNCHANGED users
    /\ UNCHANGED <<now, tests, next_test_id, consumed, last_bridge, spent, earned, credited, pc, loc,
                   goalVars, notifyVars, tzVars, dedupVars, txn, acctVars>>

\* '/add <telegram_id> <text>' where int(text) raises: the handler's except
\* branch reports an admin error and nothing is written
AdminAddNotInt(u) ==
    /\ ret' = [NoRet EXCEPT !.op = "admin_error", !.u = u]
    /\ UNCHANGED <<now, users, tests, next_test_id, consumed, last_bridge, spent, earned, credited, pc, loc,
                   goalVars, notifyVars, tzVars, dedupVars, txn, acctVars>>

\* admin command '/add <telegram_id> <text>'
AdminAddText(u, text) ==
    IF IsInt(text) THEN AdminAdd(u, IntValue(text)) ELSE AdminAddNotInt(u)

NextInput ==
    \/ \E u \in Senders : HandleRecordMenu(u)
    \/ \E u \in Senders : HandleCancel(u)
    \/ \E u \in Senders, text \in NumberTexts : ScoreText(u, text)
    \/ \E u \in Senders : HandleGoalMenu(u)
    \/ \E u \in Senders, text \in NumberTexts \cup {CANCEL} : GoalText(u, text)
    \/ \E u \in Senders, text \in NumberTexts : AdminAddText(u, text)
    \/ Tick(COOLDOWN_MINUTES)

SpecInput == Init /\ [][NextInput]_vars

\* ------------------------------------------------------------------------
\* concurrent removals: remove_test_by_id, one step per statement
\* ------------------------------------------------------------------------

\* another open transaction has deleted the row and not yet committed: the
\* DELETE waits for it
DeletePending(p, test_id) ==
    \E q \in Procs \ {p} : pc[q] = "rm_update" /\ loc[q].test_id = test_id

\* SELECT user_id, math_score FROM tests WHERE id = test_id; None when there
\* is no such row
RemSelect(p, test_id) ==
    /\ pc[p] = "idle"
    /\ IF FindTest(tests, test_id) = {}
       THEN Return(p, [NoRet EXCEPT !.op = "remove", !.test_id = test_id])
       ELSE LET row == CHOOSE r \in FindTest(tests, test_id) : TRUE
            IN /\ pc' = [pc EXCEPT ![p] = "rm_delete"]
               /\ loc' = [loc EXCEPT ![p] = [IdleLoc EXCEPT !.u = row.user_id,
                                                           !.score = row.math_score,
                                                           !.test_id = test_id]]
               /\ UNCHANGED ret
    /\ UNCHANGED <<now, users, tests, next_test_id, consumed, earned, credited,
                   last_bridge, spent, goalVars, notifyVars, tzVars, dedupVars, txn, acctVars>>

\* DELETE FROM tests WHERE id = test_id; the number of deleted rows is not
\* looked at
RemDelete(p) ==
    /\ pc[p] = "rm_delete"
    /\ ~DeletePending(p, loc[p].test_id)
    /\ pc' = [pc EXCEPT ![p] = "rm_update"]
    /\ UNCHANGED <<now, users, tests, next_test_id, ret, consumed, earned, credited,
                   last_bridge, spent, loc, goalVars, notifyVars, tzVars, dedupVars, txn, acctVars>>

\* UPDATE users SET total_points = ..., tests_count = ...; commit; return user_id
RemUpdate(p) ==
    /\ pc[p] = "rm_update"
    /\ tests' = DeleteTest(tests, loc[p].test_id)
    /\ users' = DebitUser(users, loc[p].u, loc[p].score)
    /\ Return(p, [NoRet EXCEPT !.op = "remove", !.u = loc[p].u,
                                !.test_id = loc[p].test_id])
    /\ UNCHANGED <<now, next_test_id, consumed, earned, credited, last_bridge, spent,
                   goalVars, notifyVars, tzVars, dedupVars, txn, acctVars>>

NextRemove ==
    \/ \E p \in Procs, u \in Senders, score \in EngineScores : ConcAdd(p, u, score)
    \/ \E p \in Procs, test_id \in 1..(MaxTests + 1) : RemSelect(p, test_id)
    \/ \E p \in Procs : RemDelete(p)
    \/ \E p \in Procs : RemUpdate(p)

SpecRemove == Init /\ [][NextRemove]_vars

\* ------------------------------------------------------------------------
\* concurrent score submissions: can_add_test, then add_math_score
\* ------------------------------------------------------------------------

\* ok, why = can_add_test(user): both SELECTs of the check
RateCheck(p, u, score) ==
    /\ pc[p] = "idle"
    /\ ValidScore(score)
    /\ IF can_add_test(tests, u, now) = "ok"
       THEN /\ pc' = [pc EXCEPT ![p] = "rl_add"]
            /\ loc' = [loc EXCEPT ![p] = [IdleLoc EXCEPT !.u = u, !.score = score]]
            /\ UNCHANGED ret
       ELSE Return(p, [NoRet EXCEPT !.op = "score_rejected", !.u = u,
                                    !.text = can_add_test(tests, u, now)])
    /\ UNCHANGED <<now, users, tests, next_test_id, consumed, earned, credited,
                   last_bridge, spent, goalVars, notifyVars, tzVars, dedupVars, txn, acctVars>>

\* add_math_score(user, score): INSERT and UPDATE in one transaction
RateAdd(p) ==
    LET u == loc[p].u
    IN /\ pc[p] = "rl_add"
       /\ next_test_id <= MaxTests + 1
       /\ tests' = InsertTest(tests, u, loc[p].score, next_test_id, now)
       /\ next_test_id' = next_test_id + 1
       /\ users' = CreditUser(users, u, loc[p].score)
       /\ consumed' = [consumed EXCEPT ![u] = 0]
       /\ Return(p, [NoRet EXCEPT !.op = "score", !.u = u, !.test_id = next_test_id,
                                   !.prev_points = users[u].total_points,
                                   !.prev_count = users[u].tests_count])
       /\ UNCHANGED <<now, earned, credited, last_bridge, spent,
                      goalVars, notifyVars, tzVars, dedupVars, txn, acctVars>>

NextRateConc ==
    \/ \E p \in Procs, u \in Senders, score \in EngineScores : RateCheck(p, u, score)
    \/ \E p \in Procs : RateAdd(p)
    \/ Tick(COOLDOWN_MINUTES)
    \/ Tick(DayMinutes)

SpecRateConc == Init /\ [][NextRateConc]_vars

\* ------------------------------------------------------------------------
\* the webhook from its first statement to its last: who may do what
\* ------------------------------------------------------------------------

\* menu buttons
RECORD == "Record Math Score"
SET_GOAL == "Set Goal"

\* texts the student sends: '/start', the registration answers, a menu
\* button, a score, and an admin command
StudentTexts == {START, "ann@example.com", RECORD, "44", "/approve 101"}
\* texts the admin sends
AdminTexts == AdminCommands \cup {"hi"}

\* callback data of the approve / reject buttons
CallbackData == {"approve:101", "reject:101"}

\* incoming.strip().split(): the command and its arguments
Args(text) ==
    CASE text = "/approve 101"  -> [cmd |-> "/approve", tg |-> 101, arg |-> ""]
      [] text = "/reject 101"   -> [cmd |-> "/reject", tg |-> 101, arg |-> ""]
      [] text = "/ban 101"      -> [cmd |-> "/ban", tg |-> 101, arg |-> ""]
      [] text = "/unban 101"    -> [cmd |-> "/unban", tg |-> 101, arg |-> ""]
      [] text = "/delete 101"   -> [cmd |-> "/delete", tg |-> 101, arg |-> ""]
      [] text = "/add 101 44"   -> [cmd |-> "/add", tg |-> 101, arg |-> "44"]
      [] text = "/deltest 1"    -> [cmd |-> "/deltest", tg |-> 0, arg |-> "1"]
      [] text = "/broadcast hi" -> [cmd |-> "/broadcast", tg |-> 0, arg |-> "hi"]
      [] text = "approve:101"   -> [cmd |-> "approve:", tg |-> 101, arg |-> ""]
      [] text = "reject:101"    -> [cmd |-> "reject:", tg |-> 101, arg |-> ""]
      [] OTHER                  -> [cmd |-> text, tg |-> 0, arg |-> ""]

\* int(bits[1]) of '/deltest <test_id>'
TestIdOf(text) == IF text = "1" THEN 1 ELSE 0

\* what a request leaves behind: the users table, the tests table, the
\* tests.id sequence and the messages it sent
Effect(A, T, n, O) == [accounts |-> A, tests |-> T, next_test_id |-> n, outbox |-> O]

\* send_message(chat_id, ...)
Msg(chat, kind) == [chat_id |-> chat, kind |-> kind]

\* the row of the user with this telegram id (the column is UNIQUE)
AccountOf(A, tg) == CHOOSE r \in A : r.telegram_id = tg

\* SELECT chat_id, ... FROM users WHERE approved = TRUE AND banned = FALSE
Recipients(A) == {r \in A : r.approved /\ ~r.banned}

\* the broadcast loop and the report to the admin
BroadcastMsgs(A, chat) ==
    {Msg(r.chat_id, "broadcast") : r \in Recipients(A)} \cup {Msg(chat, "broadcast_sent")}

\* round(num / den) of Python 3: halves go to the even neighbour
RoundHalfEven(num, den) ==
    LET q == num \div den
        r2 == 2 * (num % den)
    IN IF r2 < den THEN q
       ELSE IF r2 > den THEN q + 1
       ELSE IF q % 2 = 0 THEN q ELSE q + 1

RECURSIVE SumOf(_, _)
SumOf(S, field) ==
    IF S = {} THEN 0
    ELSE LET r == CHOOSE x \in S : TRUE
         IN (IF field = "h" THEN (r.created_at % DayMinutes) \div 60
             ELSE r.created_at % 60) + SumOf(S \ {r}, field)

\* update_preferred_time: the rounded average hour and minute of the tests of
\* the user (LIMIT 10 is never reached: a day holds at most 6 tests of a user
\* and the model at most MaxTests rows)
PreferredTime(r, T) ==
    LET mine == TestsOf(T, r.id)
        k == Cardinality(mine)
    IN IF mine = {} THEN r
       ELSE [r EXCEPT !.pref_hour = Max(0, Min(23, RoundHalfEven(SumOf(mine, "h"), k))),
                      !.pref_minute = Max(0, Min(59, RoundHalfEven(SumOf(mine, "m"), k)))]

\* add_math_score(user, score): the users row afterwards
AddedRow(r, T2, score) ==
    PreferredTime([r EXCEPT !.total_points = @ + score, !.tests_count = @ + 1], T2)

\* maybe_award_streak_saver(user.id): the users row afterwards
AwardedRow(r, T2) ==
    IF AwardFires(tests_today_count(T2, r.id, now), r.saver_awarded_date, LocalDate(now))
    THEN [r EXCEPT !.streak_savers = @ + 1, !.saver_awarded_date = LocalDate(now)]
    ELSE r

\* streak_days_with_saver(user): the users row afterwards
StreakRow(r, T) ==
    IF SaverUsed(StreakDays(T, r.id), LocalDate(now), r.streak_savers)
    THEN [r EXCEPT !.streak_savers = DecrementSaver(@)]
    ELSE r

\* remove_test_by_id(tid): the users table afterwards
RemovedAccounts(A, T, test_id) ==
    IF FindTest(T, test_id) = {} THEN A
    ELSE LET t == CHOOSE x \in FindTest(T, test_id) : TRUE
         IN {IF r.id = t.user_id
             THEN [r EXCEPT !.total_points = Max(0, @ - t.math_score),
                            !.tests_count = Max(0, @ - 1)]
             ELSE r : r \in A}

\* list_pending_users, admin_dashboard:
\* ... FROM users WHERE reg_step = 0 AND approved = FALSE AND banned = FALSE
PendingUsers(A) == {r \in A : r.reg_step = 0 /\ ~r.approved /\ ~r.banned}

\* the admin command branch
AdminCommand(A, T, n, row, text) ==
    LET a == Args(text)
        chat == row.chat_id
        found == FindAccount(A, a.tg) # {}
        u2 == AccountOf(A, a.tg)
        T2 == InsertTest(T, u2.id, IntValue(a.arg), n, now)
    IN CASE a.cmd \in {"/approve", "/reject"} ->
              IF found
              THEN Effect(ApproveAccount(A, a.tg, a.cmd = "/approve"), T, n,
                          {Msg(u2.chat_id, IF a.cmd = "/approve" THEN "approved" ELSE "rejected"),
                           Msg(chat, "done")})
              ELSE Effect(A, T, n, {Msg(chat, "not_found")})
         [] a.cmd \in {"/ban", "/unban"} ->
              Effect({IF r.telegram_id = a.tg THEN [r EXCEPT !.banned = (a.cmd = "/ban")] ELSE r
                      : r \in A},
                     T, n, {Msg(chat, IF found THEN "done" ELSE "not_found")})
         [] a.cmd = "/delete" ->
              Effect(DeleteAccount(A, a.tg), CascadeTests(T, A, a.tg), n, {Msg(chat, "done")})
         [] a.cmd = "/add" ->
              IF ~ValidScore(IntValue(a.arg)) THEN Effect(A, T, n, {Msg(chat, "add_invalid")})
              ELSE IF ~found THEN Effect(A, T, n, {Msg(chat, "not_found")})
              ELSE Effect(SetAccount(A, u2.id, AddedRow(u2, T2, IntValue(a.arg))), T2, n + 1,
                          {Msg(chat, "done"), Msg(u2.chat_id, "teacher_added")})
         [] a.cmd = "/deltest" ->
              Effect(RemovedAccounts(A, T, TestIdOf(a.arg)), DeleteTest(T, TestIdOf(a.arg)), n,
                     {Msg(chat, IF FindTest(T, TestIdOf(a.arg)) # {} THEN "done"
                                ELSE "not_found")})
         [] a.cmd = "/broadcast" /\ a.arg # "" ->
              Effect(A, T, n, BroadcastMsgs(A, chat))
         [] a.cmd = "/broadcast" /\ a.arg = "" ->
              Effect(SetAccount(A, row.id, [row EXCEPT !.state = ADMIN_BROADCAST]), T, n,
                     {Msg(chat, "broadcast_prompt")})
         [] OTHER -> Effect(A, T, n, {Msg(chat, "unknown_command")})

\* the branch of an admin in state admin_broadcast
AdminText(A, T, n, row, text) ==
    LET A2 == SetAccount(A, row.id, [row EXCEPT !.state = NullText])
    IN IF text \in {CANCEL, "cancel"}
       THEN Effect(A2, T, n, {Msg(row.chat_id, "cancelled")})
       ELSE Effect(A2, T, n, BroadcastMsgs(A2, row.chat_id))

\* the branches after the registration and approval checks
Menu(A, T, n, row, text) ==
    LET chat == row.chat_id
        idle == [row EXCEPT !.state = NullText]
        score == IntValue(text)
        T2 == InsertTest(T, row.id, score, n, now)
    IN IF row.state = "awaiting_score"
       THEN IF text \in {CANCEL, "cancel"}
            THEN Effect(SetAccount(A, row.id, idle), T, n, {Msg(chat, "cancelled")})
            ELSE IF ~IsInt(text) \/ ~ValidScore(score)
            THEN Effect(A, T, n, {Msg(chat, "score_invalid")})
            ELSE IF can_add_test(T, row.id, now) # "ok"
            THEN Effect(SetAccount(A, row.id, idle), T, n, {Msg(chat, "score_rejected")})
            ELSE Effect(SetAccount(A, row.id, AwardedRow(AddedRow(idle, T2, score), T2)),
                        T2, n + 1, {Msg(chat, "score_saved")})
       ELSE IF row.state = "awaiting_goal"
       THEN IF text \in {CANCEL, "cancel"}
            THEN Effect(SetAccount(A, row.id, idle), T, n, {Msg(chat, "cancelled")})
            ELSE IF ~IsInt(text) \/ ~ValidGoal(score)
            THEN Effect(A, T, n, {Msg(chat, "goal_invalid")})
            ELSE Effect(SetAccount(A, row.id, [idle EXCEPT !.goal_math = score]), T, n,
                        {Msg(chat, "goal_set")})
       ELSE IF text = RECORD
       THEN Effect(SetAccount(A, row.id, [row EXCEPT !.state = "awaiting_score"]), T, n,
                   {Msg(chat, "score_prompt")})
       ELSE IF text = SET_GOAL
       THEN Effect(SetAccount(A, row.id, [row EXCEPT !.state = "awaiting_goal"]), T, n,
                   {Msg(chat, "goal_prompt")})
       ELSE IF text = MY_STATS
       THEN Effect(SetAccount(A, row.id, StreakRow(row, T)), T, n, {Msg(chat, "my_stats")})
       ELSE Effect(A, T, n, {Msg(chat, "use_menu")})

\* the private text message of tg, handled from get_or_create_user on
MessageEffect(A, T, n, id, tg, text) ==
    LET A1 == GetOrCreate(A, id, tg, tg)
        row == AccountOf(A1, tg)
        op == Dispatch(row, text)
    IN CASE op = "ignored"      -> Effect(A1, T, n, {})
         [] op = "admin_cmd"    -> AdminCommand(A1, T, n, row, text)
         [] op = "admin_text"   -> AdminText(A1, T, n, row, text)
         [] op = "waiting"      -> Effect(A1, T, n, {Msg(row.chat_id, "waiting")})
         [] op = "welcome_back" -> Effect(SetAccount(A1, row.id, StreakRow(row, T)), T, n,
                                          {Msg(row.chat_id, "welcome_back")})
         [] op = "menu"         -> Menu(A1, T, n, row, text)
         [] OTHER               -> Effect(DispatchWrites(A1, row, text), T, n,
                                          {Msg(row.chat_id, op)})

\* POST /webhook with update update_id, a private text message of tg
WebhookMessage(update_id, tg, text) ==
    LET created == FindAccount(accounts, tg) = {}
    IN /\ IsNewUpdate(update_id)
       /\ last_update' = [update_id |-> update_id, text |-> text, handled |-> 1]
       /\ created => next_user_id <= MaxUserId
       /\ \E e \in {MessageEffect(accounts, tests, next_test_id, next_user_id, tg, text)} :
            /\ e.next_test_id <= MaxTests + 1
            /\ accounts' = e.accounts
            /\ tests' = e.tests
            /\ next_test_id' = e.next_test_id
            /\ outbox' = e.outbox
       /\ next_user_id' = IF created THEN next_user_id + 1 ELSE next_user_id
       /\ ret' = [NoRet EXCEPT !.op = Dispatch(AccountOf(GetOrCreate(accounts, next_user_id, tg, tg), tg), text),
                                !.u = tg]
       /\ UNCHANGED <<now, users, consumed, last_bridge, spent, earned, credited, pc, loc,
                      goalVars, tick, nudges, tzVars, processed, accepted, txn>>

\* the callback branch: an approve / reject button pressed by telegram user tg
CallbackEffect(A, tg, data) ==
    LET a == Args(data)
        u == AccountOf(A, a.tg)
    IN IF ~is_admin(tg) THEN Effect(A, {}, 0, {})
       ELSE IF FindAccount(A, a.tg) = {} THEN Effect(A, {}, 0, {Msg(tg, "not_found")})
       ELSE Effect(ApproveAccount(A, a.tg, a.cmd = "approve:"), {}, 0,
                   {Msg(u.chat_id, IF a.cmd = "approve:" THEN "approved" ELSE "rejected"),
                    Msg(tg, "done")})

\* POST /webhook with update update_id, a callback_query
WebhookCallback(update_id, tg, data) ==
    LET e == CallbackEffect(accounts, tg, data)
    IN /\ IsNewUpdate(update_id)
       /\ last_update' = [update_id |-> update_id, text |-> data, handled |-> 1]
       /\ accounts' = e.accounts
       /\ outbox' = e.outbox
       /\ ret' = [NoRet EXCEPT !.op = "callback", !.u = tg]
       /\ UNCHANGED <<now, users, tests, next_test_id, next_user_id, consumed, last_bridge,
                      spent, earned, credited, pc, loc, goalVars, tick, nudges, tzVars,
                      processed, accepted, txn>>

\* the state with users table A, users.id sequence at uid, tests table T
\* and the clock at t; nothing else has happened yet
InitTables(A, uid, T, t) ==
    /\ now = t
    /\ users = [u \in Users |->
                  [streak_savers |-> 0, saver_awarded_date |-> NULL,
                   total_points |-> 0, tests_count |-> 0, state |-> "none",
                   goal_math |-> NULL]]
    /\ tests = T
    /\ next_test_id = Cardinality(T) + 1
    /\ ret = NoRet
    /\ consumed = [u \in Users |-> 0]
    /\ last_bridge = [u \in Users |-> NoBridge]
    /\ credited = [u \in Users |-> 0]
    /\ spent = [u \in Users |-> 0]
    /\ earned = [u \in Users |-> 0]
    /\ pc = [p \in Procs |-> "idle"]
    /\ loc = [p \in Procs |-> IdleLoc]
    /\ history = <<>>
    /\ goal = NULL
    /\ estimate = NoEstimate
    /\ zone = UTCZone
    /\ event_at = NULL
    /\ bounds = <<>>
    /\ txn = [p \in Procs |-> <<>>]
    /\ accounts = A
    /\ next_user_id = uid
    /\ processed = {}
    /\ accepted = [id \in UpdateIds |-> 0]
    /\ last_update = NoUpdate
    /\ outbox = {}
    /\ tick = NoTick
    /\ nudges = [id \in 1..MaxUserId |-> 0]

\* the users and tests tables are empty; it is 19:00 of day 1
InitGate == InitTables({}, 1, {}, DayMinutes + 19 * 60)

NextGate ==
    \/ \E update_id \in 1..MaxRequests, text \in StudentTexts :
          WebhookMessage(update_id, 101, text)
    \/ \E update_id \in 1..MaxRequests, text \in AdminTexts :
          WebhookMessage(update_id, 102, text)
    \/ \E update_id \in 1..MaxRequests, tg \in TelegramIds, data \in CallbackData :
          WebhookCallback(update_id, tg, data)

SpecGate == InitGate /\ [][NextGate]_vars

\* ------------------------------------------------------------------------
\* approve_user_by_telegram_id on the records it can meet
\* ------------------------------------------------------------------------

\* telegram ids handed to the function; nobody has telegram id 103
ApproveInputs == {101, 102, 103}

\* a record of the student: in or after registration, with or without a
\* pending conversation state, registered the day before or not yet
\* reg_step and registered_at of a record: registered_at is written with
\* reg_step 0 and stays when the steps are walked again
StepInputs == {<<step, at>> \in (0..4) \X {NULL, 19 * 60} : step = 0 => at # NULL}

\* a record of the student: in or after registration, registered the day
\* before or not yet; only a registered student can have been approved
StudentRows ==
    {[NewAccount(1, 101, 101) EXCEPT !.reg_step = x[1][1], !.registered_at = x[1][2],
                                     !.approved = x[2], !.banned = x[3],
                                     !.first_name = "Ann"]
       : x \in {y \in StepInputs \X BOOLEAN \X BOOLEAN : y[2] => y[1][2] # NULL}}

\* the record of the admin, who may have been asked for a broadcast text
AdminRows ==
    {[NewAccount(2, 102, 102) EXCEPT !.reg_step = sa[1], !.registered_at = sa[2],
                                     !.state = st]
       : sa \in StepInputs, st \in {NullText, ADMIN_BROADCAST}}

InitApprove ==
    \E r1 \in StudentRows, r2 \in AdminRows :
       InitTables({r1, r2}, 3, {}, DayMinutes + 19 * 60)

NextApprove ==
    \E tg \in ApproveInputs, approved \in BOOLEAN : ApproveUser(tg, approved)

SpecApprove == InitApprove /\ [][NextApprove]_vars

\* ------------------------------------------------------------------------
\* the reminder job: notification_tick, one step per user of its loop
\* ------------------------------------------------------------------------

\* the job runs every TICK_MINUTES minutes
TICK_MINUTES == 5
\* the fallback target 19:00, and the window around the target
DEFAULT_HOUR == 19
DEFAULT_MINUTE == 0
WINDOW_BEFORE == 10
WINDOW_AFTER == 25

\* the evening starts shortly before the window of the fallback target opens
EveningStart == DayMinutes + DEFAULT_HOUR * 60 - 15
\* the last minute the clock is followed to
EveningEnd == EveningStart + MaxSlots * TICK_MINUTES

\* now_local.replace(hour = h, minute = m, second = 0, microsecond = 0),
\* with h, m = 19, 0 when a preference is unset
TargetOf(r, t) ==
    LET unset == r.pref_hour = NULL \/ r.pref_minute = NULL
        h == IF unset THEN DEFAULT_HOUR ELSE r.pref_hour
        m == IF unset THEN DEFAULT_MINUTE ELSE r.pref_minute
    IN LocalDate(t) * DayMinutes + h * 60 + m

\* the window is open for the rest of the day
InWindow_NoEnd(r, t) == TargetOf(r, t) - WINDOW_BEFORE <= t

\* target - 10 min <= now_local <= target + 25 min
InWindow(r, t) ==
    /\ TargetOf(r, t) - WINDOW_BEFORE <= t
    /\ t <= TargetOf(r, t) + WINDOW_AFTER

\* the last_nudge_at of the selected row is not looked at
NudgedToday_Never(r, t) == FALSE

\* if last_nudge and last_nudge.astimezone(tz).date() == today: continue
NudgedToday(r, t) == r.last_nudge_at # NULL /\ LocalDate(r.last_nudge_at) = LocalDate(t)

\* the checks of the loop body for the selected row r, in a tick that read
\* the clock at t
ShouldNudge(r, T, t) ==
    /\ tests_today_count(T, r.id, now) = 0
    /\ ~NudgedToday(r, t)
    /\ InWindow(r, t)

\* the orders in which the SELECT (no ORDER BY) can return the rows of S
RowOrders(S) ==
    {s \in [1..Cardinality(S) -> S] : \A i, j \in 1..Cardinality(S) : s[i] = s[j] => i = j}

\* notification_tick up to the loop: read the clock, select the approved
\* users who are not banned
TickStart ==
    /\ ~tick.running
    /\ tick.at # now
    /\ \E rows \in RowOrders(Recipients(accounts)) :
          tick' = [tick EXCEPT !.running = TRUE, !.rows = rows, !.i = 1, !.at = now]
    /\ outbox' = {}
    /\ ret' = [NoRet EXCEPT !.op = "tick_start"]
    /\ UNCHANGED <<now, users, tests, next_test_id, consumed, last_bridge, spent, earned,
                   credited, pc, loc, goalVars, nudges, tzVars, dedupVars, txn, acctVars>>

\* UPDATE users SET last_nudge_at = now() WHERE id = uid
Stamped(A, id) == {IF r.id = id THEN [r EXCEPT !.last_nudge_at = now] ELSE r : r \in A}

\* what can happen to a nudge: the send and the write succeed, the send
\* raises, or the write raises after the send went out
NudgeOutcomes == {"sent", "send_failed", "write_failed"}

\* last_nudge_at is written whether or not the send went through
NudgeWrite_Always(A, id, outcome) == Stamped(A, id)

\* try: send_message(...); set_user_fields(uid, {"last_nudge_at": ...})
\* except Exception: pass -- the write is reached, and kept, only when
\* neither call raises
NudgeWrite(A, id, outcome) == IF outcome = "sent" THEN Stamped(A, id) ELSE A

\* one pass of the loop body, for the next selected row
TickUser(outcome) ==
    LET r == tick.rows[tick.i]
        due == ShouldNudge(r, tests, tick.at)
        delivered == due /\ outcome \in {"sent", "write_failed"}
    IN /\ tick.running
       /\ tick.i <= Len(tick.rows)
       /\ ~due => outcome = "sent"
       /\ outcome # "sent" => tick.failed < MaxFailures
       /\ outbox' = IF delivered THEN {Msg(r.chat_id, "nudge")} ELSE {}
       /\ nudges' = IF delivered THEN [nudges EXCEPT ![r.id] = @ + 1] ELSE nudges
       /\ accounts' = IF due THEN NudgeWrite(accounts, r.id, outcome) ELSE accounts
       /\ tick' = [tick EXCEPT !.i = @ + 1,
                                !.failed = IF outcome = "sent" THEN @ ELSE @ + 1]
       /\ ret' = [NoRet EXCEPT !.op = IF due THEN outcome ELSE "skipped", !.row = r.id]
       /\ UNCHANGED <<now, users, tests, next_test_id, consumed, last_bridge, spent, earned,
                      credited, pc, loc, goalVars, tzVars, dedupVars, txn, next_user_id>>

\* the loop is over
TickEnd ==
    /\ tick.running
    /\ tick.i > Len(tick.rows)
    /\ tick' = [tick EXCEPT !.running = FALSE]
    /\ outbox' = {}
    /\ ret' = [NoRet EXCEPT !.op = "tick_end"]
    /\ UNCHANGED <<now, users, tests, next_test_id, consumed, last_bridge, spent, earned,
                   credited, pc, loc, goalVars, nudges, tzVars, dedupVars, txn, acctVars>>

\* the job has run; its interval passes
Advance ==
    /\ ~tick.running
    /\ tick.at = now
    /\ now + TICK_MINUTES <= EveningEnd
    /\ now' = now + TICK_MINUTES
    /\ outbox' = {}
    /\ ret' = [NoRet EXCEPT !.op = "advance"]
    /\ UNCHANGED <<users, tests, next_test_id, consumed, last_bridge, spent, earned,
                   credited, pc, loc, goalVars, tick, nudges, tzVars, dedupVars, txn, acctVars>>

\* add_math_score(user, score) for the user with telegram id tg: the first
\* score of the day, the one that ends the reminders
AddMathScore(tg, score) ==
    LET u == AccountOf(accounts, tg)
        T2 == InsertTest(tests, u.id, score, next_test_id, now)
    IN /\ FindAccount(accounts, tg) # {}
       /\ TestsOf(tests, u.id) = {}
       /\ tests' = T2
       /\ next_test_id' = next_test_id + 1
       /\ accounts' = SetAccount(accounts, u.id, AddedRow(u, T2, score))
       /\ outbox' = {}
       /\ ret' = [NoRet EXCEPT !.op = "add", !.u = tg, !.test_id = next_test_id]
       /\ UNCHANGED <<now, users, consumed, last_bridge, spent, earned, credited, pc, loc,
                      goalVars, tick, nudges, tzVars, dedupVars, txn, next_user_id>>

\* the preferences of a user: none yet, or 19:10 from earlier tests
PrefInputs == {<<NULL, NULL>>, <<19, 10>>}
\* last_nudge_at of a user: never, or at 19:00 the day before
LastNudgeInputs == {NULL, DEFAULT_HOUR * 60}

\* the record of the student on the evening of day 1: registered and
\* approved or not, banned or not
NudgeStudentRows ==
    {[NewAccount(1, 101, 101) EXCEPT !.reg_step = 0, !.registered_at = 0,
                                     !.first_name = "Ann", !.email = "ann@example.com",
                                     !.approved = appr, !.banned = ban,
                                     !.pref_hour = pref[1], !.pref_minute = pref[2],
                                     !.last_nudge_at = last]
       : appr \in BOOLEAN, ban \in BOOLEAN, pref \in PrefInputs, last \in LastNudgeInputs}

\* the record of the admin: approved, no preference, never nudged
NudgeAdminRow ==
    [NewAccount(2, 102, 102) EXCEPT !.reg_step = 0, !.registered_at = 0, !.first_name = "hi"]

\* the evening of day 1, before the first run of the job
InitNudge ==
    \E r1 \in NudgeStudentRows : InitTables({r1, NudgeAdminRow}, 3, {}, EveningStart)

NextNudge ==
    \/ TickStart
    \/ \E outcome \in NudgeOutcomes : TickUser(outcome)
    \/ TickEnd
    \/ Advance
    \/ BanUser(101, TRUE)
    \/ ApproveUser(101, TRUE)
    \/ AddMathScore(101, MAX_SCORE)

SpecNudge == InitNudge /\ [][NextNudge]_vars

\* the job has another run ahead in which the row at hand is still inside
\* its window
RetryAhead ==
    /\ tick.running
    /\ tick.i <= Len(tick.rows)
    /\ tick.at + TICK_MINUTES <= EveningEnd
    /\ InWindow(tick.rows[tick.i], tick.at + TICK_MINUTES)

\* the loop body when sends succeed before the window closes: a send
\* raises only while a later run inside the window is left
TickUserLive ==
    \/ TickUser("sent")
    \/ TickUser("write_failed")
    \/ RetryAhead /\ TickUser("send_failed")

\* the job's first run is early in the evening, or at the last minute of
\* the window of the fallback target
StartInputs == {EveningStart, DayMinutes + DEFAULT_HOUR * 60 + DEFAULT_MINUTE + WINDOW_AFTER}

\* the evening of day 1 with the student approved and not banned
InitNudgeLive ==
    \E r1 \in {r \in NudgeStudentRows : r.approved /\ ~r.banned}, t \in StartInputs :
       InitTables({r1, NudgeAdminRow}, 3, {}, t)

NextNudgeLive ==
    \/ TickStart
    \/ TickUserLive
    \/ TickEnd
    \/ Advance
    \/ BanUser(101, TRUE)
    \/ AddMathScore(101, MAX_SCORE)

\* add_job(notification_tick, "interval", minutes = 5, max_instances = 1,
\* coalesce = True): the job is run at every interval, one run at a time,
\* and a run goes through its loop to the end
SpecNudgeLive ==
    /\ InitNudgeLive
    /\ [][NextNudgeLive]_vars
    /\ WF_vars(TickStart)
    /\ WF_vars(TickUserLive)
    /\ WF_vars(TickEnd)
    /\ WF_vars(Advance)

\* ------------------------------------------------------------------------
\* goal projection: estimate_goal(history, goal)
\* ------------------------------------------------------------------------

\* if not history or len(history) < 4 / if len(points) < 4
MIN_POINTS == 4
\* history[:30]
HISTORY_ROWS == 30
\* points[-10:]
TREND_POINTS == 10
\* max(1e-6, ...): the floor of the elapsed days, as a rational
EPS_DAYS == <<1, 1000000>>
\* if slope <= 0.05, as a rational
FLAT_SLOPE == <<1, 20>>


\* history[:30]
HeadRows(h) == SubSeq(h, 1, Min(HISTORY_ROWS, Len(h)))

\* reversed(...): oldest first
Reversed(h) == [i \in 1..Len(h) |-> h[Len(h) + 1 - i]]

\* every row counts, null or not
Usable_Always(r) == TRUE

\* if s is None or at is None: continue
Usable(r) == r.s # NULL /\ r.created_at # NULL

\* the points list: the usable rows of the 30 newest, oldest first
Points(h) == SelectSeq(Reversed(HeadRows(h)), Usable)

\* all points are used
LastPoints_All(points) == points

\* pts = points[-10:]
LastPoints(points) == SubSeq(points, Max(1, Len(points) - TREND_POINTS + 1), Len(points))

\* days = max(1e-6, (t1 - t0).total_seconds() / 86400.0), with t0, t1 in minutes;
\* a whole number of minutes is below 1e-6 days exactly when it is below 1
ElapsedDays(t0, t1) == IF t1 - t0 >= 1 THEN <<t1 - t0, DayMinutes>> ELSE EPS_DAYS

\* slope = (s1 - s0) / days
Slope(s0, s1, days) == <<(s1 - s0) * days[2], days[1]>>

\* the goal counts as met only above it
GoalMet_Strict(current, g) == current > g

\* if current >= goal
GoalMet(current, g) == current >= g

\* only a slope of zero or less is flat
IsFlat_NotPositive(slope) == slope[1] <= 0

\* if slope <= 0.05 (the denominators are positive)
IsFlat(slope) == slope[1] * FLAT_SLOPE[2] <= FLAT_SLOPE[1] * slope[2]

\* days_needed = (goal - current) / slope
DaysNeeded(current, g, slope) == <<(g - current) * slope[2], slope[1]>>

\* eta = datetime.now(tz) + timedelta(days=days_needed), in whole minutes
Eta(t, days_needed) == t + (days_needed[1] * DayMinutes) \div days_needed[2]

\* what estimate_goal computes; the text it returns is built from these values
estimate_goal(h, g, t) ==
    IF Len(h) < MIN_POINTS
    THEN [NoEstimate EXCEPT !.outcome = "insufficient"]
    ELSE LET points == Points(h)
         IN IF Len(points) < MIN_POINTS
            THEN [NoEstimate EXCEPT !.outcome = "insufficient"]
            ELSE LET pts == LastPoints(points)
                     t0 == pts[1].created_at
                     s0 == pts[1].s
                     t1 == pts[Len(pts)].created_at
                     s1 == pts[Len(pts)].s
                     slope == Slope(s0, s1, ElapsedDays(t0, t1))
                     current == s1
                 IN IF GoalMet(current, g)
                    THEN [NoEstimate EXCEPT !.outcome = "met", !.slope = slope]
                    ELSE IF IsFlat(slope)
                    THEN [NoEstimate EXCEPT !.outcome = "flat", !.slope = slope]
                    ELSE [outcome |-> "projection",
                          slope |-> slope,
                          days_needed |-> DaysNeeded(current, g, slope),
                          eta |-> Eta(t, DaysNeeded(current, g, slope))]

\* ---- the inputs of the goal projection ----

\* created_at of the newest row of every input history
NewestAt == 34 * DayMinutes
\* lengths of the input histories
HistoryLengths == {0, 2, 3, 4, 11, 31, 34}
\* minutes between two neighbouring rows: none, 6 days 16 hours (three of
\* them are 20 days), 1 day, 10 days
GapInputs == {0, 1440, 9600, 14400}
\* score of the newest row, of one chosen older row, and of all other rows
NewestScores == {21, 30, 44}
OlderScores == {20, 30, 40}
OtherScore == 25
\* the position of the chosen older row
OlderPositions == {2, 4, 10, 11}
\* the positions of rows with a null in them (odd position: null score,
\* even position: null created_at)
NullPositions == {{}, {1}, {2, 3}, 1..HISTORY_ROWS}
GoalInputs == {30, 44}

HistoryInput(n, gap, a, b, pos, nulls) ==
    [i \in 1..n |->
        [s |-> IF i \in nulls /\ i % 2 = 1 THEN NULL
               ELSE IF i = 1 THEN a ELSE IF i = pos THEN b ELSE OtherScore,
         created_at |-> IF i \in nulls /\ i % 2 = 0 THEN NULL
                        ELSE NewestAt - (i - 1) * gap]]

\* the tables are those of Init with an empty balance; the history, the goal
\* and the current time are drawn from the input sets
InitGoal ==
    /\ now \in {NewestAt, NewestAt + DayMinutes}
    /\ users = [u \in Users |->
                  [streak_savers |-> 0, saver_awarded_date |-> NULL,
                   total_points |-> 0, tests_count |-> 0, state |-> "none", goal_math |-> NULL]]
    /\ tests = {}
    /\ next_test_id = 1
    /\ ret = NoRet
    /\ consumed = [u \in Users |-> 0]
    /\ last_bridge = [u \in Users |-> NoBridge]
    /\ credited = [u \in Users |-> users[u].streak_savers]
    /\ spent = [u \in Users |-> 0]
    /\ earned = [u \in Users |-> 0]
    /\ pc = [p \in Procs |-> "idle"]
    /\ loc = [p \in Procs |-> IdleLoc]
    /\ \E n \in HistoryLengths, gap \in GapInputs, a \in NewestScores,
          b \in OlderScores, pos \in OlderPositions, nulls \in NullPositions :
         /\ (n - 1) * gap <= 30 * DayMinutes
         /\ history = HistoryInput(n, gap, a, b, pos, nulls)
    /\ goal \in GoalInputs
    /\ estimate = NoEstimate
    /\ zone = UTCZone
    /\ event_at = NULL
    /\ bounds = <<>>
    /\ txn = [p \in Procs |-> <<>>]
    /\ accounts = {}
    /\ next_user_id = 1
    /\ processed = {}
    /\ accepted = [id \in UpdateIds |-> 0]
    /\ last_update = NoUpdate
    /\ outbox = {}
    /\ tick = NoTick
    /\ nudges = [id \in 1..MaxUserId |-> 0]

\* 'My Stats' with a goal set: goal_block = estimate_goal(history, goal)
EstimateGoal ==
    /\ estimate.outcome = "none"
    /\ estimate' = estimate_goal(history, goal, now)
    /\ UNCHANGED <<now, users, tests, next_test_id, ret, consumed, last_bridge, spent, earned, credited, pc, loc,
                   history, goal, notifyVars, tzVars, dedupVars, txn, acctVars>>

NextGoal == EstimateGoal

SpecGoal == InitGoal /\ [][NextGoal]_vars

\* ------------------------------------------------------------------------
\* 'today' in the configured timezone
\* ------------------------------------------------------------------------

\* the UTC day on which the zones below change their offset
TransitionDay == 2

\* UTC; a zone without transitions; zones that change the offset away from
\* local midnight; a zone that changes it at local midnight (autumn: 01:00
\* becomes 00:00, spring: 00:00 becomes 01:00)
ZoneInputs ==
    { UTCZone,
      [name |-> "Asia/Yerevan", before |-> 240, after |-> 240, at |-> 0],
      [name |-> "America/New_York (November)", before |-> -240, after |-> -300,
       at |-> TransitionDay * DayMinutes + 360],
      [name |-> "Europe/London (March)", before |-> 0, after |-> 60,
       at |-> TransitionDay * DayMinutes + 60],
      [name |-> "America/Havana (November)", before |-> -240, after |-> -300,
       at |-> TransitionDay * DayMinutes + 300],
      [name |-> "America/Havana (March)", before |-> -300, after |-> -240,
       at |-> TransitionDay * DayMinutes + 300] }

\* every full hour of the UTC days 1 to 3
TimeInputs == {DayMinutes + 60 * k : k \in 0..71}

\* the UTC offset in force at an instant
UtcOffsetAt(z, t) == IF t < z.at THEN z.before ELSE z.after

\* datetime.now(tz) / astimezone(tz): wall clock and fold (1 for the second
\* pass through wall times that the transition repeats)
FromUtc(z, t) ==
    [wall |-> t + UtcOffsetAt(z, t),
     fold |-> IF t >= z.at /\ z.before - z.after > t - z.at THEN 1 ELSE 0]

\* utcoffset() of a wall time: a repeated or skipped wall time takes the
\* offset before the transition with fold 0 and the one after it with fold 1
UtcOffsetOfWall(z, l) ==
    LET shifted == IF l.fold = 0 THEN Max(z.before, z.after) ELSE Min(z.before, z.after)
    IN IF l.wall >= z.at + shifted THEN z.after ELSE z.before

\* astimezone(timezone.utc)
ToUtc(z, l) == l.wall - UtcOffsetOfWall(z, l)

\* now_local.replace(hour=0, minute=0, second=0, microsecond=0): fold is kept
StartOfDay(l) == [wall |-> (l.wall \div DayMinutes) * DayMinutes, fold |-> l.fold]

\* start_local + timedelta(days=1): wall-clock arithmetic, fold is reset
PlusOneDay(l) == [wall |-> l.wall + DayMinutes, fold |-> 0]

\* tz_bounds_for_today() in zone z at the instant t
TzBoundsForToday(z, t) ==
    LET start_local == StartOfDay(FromUtc(z, t))
        end_local == PlusOneDay(start_local)
    IN <<ToUtc(z, start_local), ToUtc(z, end_local)>>

\* (created_at AT TIME ZONE tz)::date  and  datetime.now(tz).date()
LocalDateIn(z, t) == (t + UtcOffsetAt(z, t)) \div DayMinutes

\* created_at >= start_utc AND created_at < end_utc
InBounds(b, t) == t >= b[1] /\ t < b[2]

\* the tables are empty; the zone, the current time and the time of the
\* event are drawn from the input sets
InitTz ==
    /\ now \in TimeInputs
    /\ users = [u \in Users |->
                  [streak_savers |-> 0, saver_awarded_date |-> NULL,
                   total_points |-> 0, tests_count |-> 0, state |-> "none", goal_math |-> NULL]]
    /\ tests = {}
    /\ next_test_id = 1
    /\ ret = NoRet
    /\ consumed = [u \in Users |-> 0]
    /\ last_bridge = [u \in Users |-> NoBridge]
    /\ credited = [u \in Users |-> users[u].streak_savers]
    /\ spent = [u \in Users |-> 0]
    /\ earned = [u \in Users |-> 0]
    /\ pc = [p \in Procs |-> "idle"]
    /\ loc = [p \in Procs |-> IdleLoc]
    /\ history = <<>>
    /\ goal = NULL
    /\ estimate = NoEstimate
    /\ zone \in ZoneInputs
    /\ event_at \in TimeInputs
    /\ bounds = <<>>
    /\ txn = [p \in Procs |-> <<>>]
    /\ accounts = {}
    /\ next_user_id = 1
    /\ processed = {}
    /\ accepted = [id \in UpdateIds |-> 0]
    /\ last_update = NoUpdate
    /\ outbox = {}
    /\ tick = NoTick
    /\ nudges = [id \in 1..MaxUserId |-> 0]

\* start_utc, end_utc = tz_bounds_for_today()
CallTzBounds ==
    /\ bounds = <<>>
    /\ bounds' = TzBoundsForToday(zone, now)
    /\ UNCHANGED <<now, users, tests, next_test_id, ret, consumed, last_bridge, spent, earned, credited, pc, loc,
                   goalVars, notifyVars, zone, event_at, txn, acctVars, dedupVars>>

NextTz == CallTzBounds

SpecTz == InitTz /\ [][NextTz]_vars

\* ------------------------------------------------------------------------
\* properties
\* ------------------------------------------------------------------------

Today == LocalDate(now)

\* the number of consecutive days with an event that end with day d
RunEndingAt(dayset, d) ==
    CHOOSE k \in 0..(d + 1) :
        /\ \A i \in 0..(k - 1) : (d - i) \in dayset
        /\ (d - k) \notin dayset

\* C1: on one local day, with no new ScoreEvent in between, any number of
\* streak evaluations lowers the persisted saver balance by at most 1.
C1_AtMostOneSaverConsumedPerDay ==
    \A u \in Users : consumed[u] <= 1

\* C2: of the maybe_award_streak_saver calls made one after another on one
\* local day with today's count at or above the threshold, the first one
\* adds exactly 1 to the balance, stamps saver_awarded_date with today and
\* returns the 'earned' note; every later one returns None and leaves the
\* balance and the date as they are.
C2_AwardOncePerDay ==
    [][\A u \in Users :
         (/\ ret'.op \in AwardOps
          /\ ret'.u = u
          /\ tests_today_count(tests', u, now') >= SAVER_EARN_THRESHOLD)
         => IF earned[u] = 0
            THEN /\ ret'.note
                 /\ earned'[u] = 1
                 /\ users'[u].streak_savers = users[u].streak_savers + 1
                 /\ users'[u].saver_awarded_date = LocalDate(now')
            ELSE /\ ~ret'.note
                 /\ earned'[u] = 1
                 /\ users'[u].streak_savers = users[u].streak_savers
                 /\ users'[u].saver_awarded_date = LocalDate(now')]_vars

\* a second call above the threshold on a day on which the saver was earned
C2_Witness ==
    /\ ret.op = "award"
    /\ ~ret.note
    /\ earned[ret.u] = 1
    /\ tests_today_count(tests, ret.u, now) > SAVER_EARN_THRESHOLD - 1
    /\ users[ret.u].saver_awarded_date = Today

\* C3: with concurrent maybe_award_streak_saver calls for one user, at most
\* one saver is awarded to the user on a local day.
C3_AtMostOneAwardPerDayConcurrent ==
    \A u \in Users : earned[u] < 2

\* C4: every persisted saver balance and every balance a streak evaluation
\* returns is >= 0, whatever the interleaving of adds, awards and evaluations.
C4_BalanceNeverNegative ==
    /\ \A u \in Users : users[u].streak_savers >= 0
    /\ (ret.op \in StreakOps => ret.savers >= 0)

\* one evaluation has consumed the last saver while another one, which read
\* the balance before that, is about to decrement it as well
C4_Witness ==
    /\ ret.op = "streak"
    /\ ret.used
    /\ ret.savers = 0
    /\ \E p \in Procs : /\ pc[p] = "st_write"
                         /\ loc[p].variant = "app"
                         /\ loc[p].u = ret.u
                         /\ users[ret.u].streak_savers = 0

\* C5: bridge rule.  No event today, an event yesterday and a balance > 0:
\* one evaluation lowers the persisted balance by exactly 1, reports
\* saver_used and returns 1 + the run of event days that ends yesterday.
C5_BridgeRule ==
    [][\A u \in Users :
         (/\ ret'.op \in StreakOps
          /\ ret'.u = u
          /\ Today \notin StreakDays(tests, u)
          /\ (Today - 1) \in StreakDays(tests, u)
          /\ users[u].streak_savers > 0)
         => /\ users'[u].streak_savers = users[u].streak_savers - 1
            /\ ret'.used
            /\ ret'.streak = 1 + RunEndingAt(StreakDays(tests, u), Today - 1)]_vars

\* a saver last_bridge today on top of a two-day run
C5_Witness ==
    /\ ret.op \in StreakOps
    /\ ret.used
    /\ ret.streak = 3
    /\ Today \notin StreakDays(tests, ret.u)
    /\ {Today - 1, Today - 2} \subseteq StreakDays(tests, ret.u)

\* C6: with no event today and none yesterday an evaluation returns streak 0,
\* reports no saver use and leaves the users table as it is, for every
\* balance and every older history.
C6_NoBridgeOverLongGap ==
    [][\A u \in Users :
         (/\ ret'.op \in StreakOps
          /\ ret'.u = u
          /\ Today \notin StreakDays(tests, u)
          /\ (Today - 1) \notin StreakDays(tests, u))
         => /\ ret'.streak = 0
            /\ ~ret'.used
            /\ users' = users]_vars

\* an evaluation two days after the last event, with a saver in hand
C6_Witness ==
    /\ ret.op \in StreakOps
    /\ ret.streak = 0
    /\ users[ret.u].streak_savers > 0
    /\ (Today - 2) \in StreakDays(tests, ret.u)
    /\ Today \notin StreakDays(tests, ret.u)
    /\ (Today - 1) \notin StreakDays(tests, ret.u)

\* C7: with events on exactly N consecutive days ending today an evaluation
\* returns N, reports no saver use and writes nothing.
C7_StreakIsRunEndingToday ==
    [][\A u \in Users :
         (/\ ret'.op \in StreakOps
          /\ ret'.u = u
          /\ Today \in StreakDays(tests, u))
         => /\ ret'.streak = RunEndingAt(StreakDays(tests, u), Today)
            /\ ret'.streak >= 1
            /\ ~ret'.used
            /\ users' = users
            /\ tests' = tests]_vars

\* a three-day run ending today was evaluated
C7_Witness ==
    /\ ret.op \in StreakOps
    /\ ret.streak = 3
    /\ ~ret.used
    /\ {Today, Today - 1, Today - 2} \subseteq StreakDays(tests, ret.u)

\* C8: for a user without any ScoreEvent an evaluation returns streak 0 and no
\* saver use, maybe_award_streak_saver returns no note, and neither writes.
C8_EmptyHistory ==
    [][\A u \in Users :
         (/\ ret'.op \in StreakOps \cup {"award"}
          /\ ret'.u = u
          /\ \A r \in tests : r.user_id # u)
         => /\ ret'.streak = 0
            /\ ~ret'.used
            /\ ~ret'.note
            /\ users' = users]_vars

\* an evaluation for a user who holds savers and has no event
C8_Witness ==
    /\ ret.op \in StreakOps
    /\ ret.streak = 0
    /\ users[ret.u].streak_savers = 2
    /\ \A r \in tests : r.user_id # ret.u
    /\ tests # {}

\* C9: whenever a ScoreEvent is recorded, by the user's score flow or by the
\* admin '/add', and today's count is then at or above the threshold, the
\* user's saver_awarded_date is today at the end of the request.
C9_AwardedWheneverThresholdReached ==
    [][\A u \in Users :
         (/\ ret'.op \in {"score", "admin_add"}
          /\ ret'.u = u
          /\ tests_today_count(tests', u, now') >= SAVER_EARN_THRESHOLD)
         => users'[u].saver_awarded_date = LocalDate(now')]_vars

\* C10: add_math_score directly followed by remove_test_by_id of the returned
\* id restores total_points and tests_count of the user.
C10_AddRemoveRoundTrip ==
    [][(/\ ret.op \in AddOps
        /\ ret'.op = "deltest"
        /\ ret'.test_id = ret.test_id)
       => /\ ret'.u = ret.u
          /\ users'[ret.u].total_points = ret.prev_points
          /\ users'[ret.u].tests_count = ret.prev_count]_vars

\* a test with a positive score was added to existing totals and removed at once
C10_Witness ==
    /\ ret.op = "deltest"
    /\ ret.undo
    /\ ret.u \in Users
    /\ users[ret.u].total_points > 0
    /\ users[ret.u].tests_count > 0

\* the sum of the scores of a set of tests rows
RECURSIVE SumScores(_)
SumScores(T) ==
    IF T = {} THEN 0
    ELSE LET r == CHOOSE x \in T : TRUE IN r.math_score + SumScores(T \ {r})

\* C11: after any sequence of adds and removals run one after another, every
\* user's total_points is the sum of the scores of the user's existing tests
\* and tests_count is their number.
C11_TotalsMatchLedger ==
    \A u \in Users :
        /\ users[u].total_points = SumScores(TestsOf(tests, u))
        /\ users[u].tests_count = Cardinality(TestsOf(tests, u))

\* a removal of an id that was already removed, while the user still has a
\* test with a positive score
C11_Witness ==
    /\ ret.op = "deltest"
    /\ ret.u = 0
    /\ ret.test_id < next_test_id
    /\ \E u \in Senders : /\ users[u].tests_count = 1
                           /\ users[u].total_points = MAX_SCORE

\* ---- goal projection ----

\* the rows of the 30 newest that have a score and a timestamp
UsableRows(h) ==
    {i \in 1..Len(h) : i <= HISTORY_ROWS /\ h[i].s # NULL /\ h[i].created_at # NULL}

\* n: the number of usable points
UsableCount(h) == Cardinality(UsableRows(h))

\* the newest usable row
NewestRow(h) == h[CHOOSE i \in UsableRows(h) : \A j \in UsableRows(h) : i <= j]

\* the oldest of the min(10, n) most recent usable rows
OldestRow(h) ==
    h[CHOOSE i \in UsableRows(h) :
        Cardinality({j \in UsableRows(h) : j <= i}) = Min(10, UsableCount(h))]

\* minutes between the two points
ElapsedMinutes(h) == NewestRow(h).created_at - OldestRow(h).created_at

ScoreGain(h) == NewestRow(h).s - OldestRow(h).s

Estimated == estimate.outcome # "none"

RECURSIVE Gcd(_, _)
Gcd(a, b) == IF b = 0 THEN a ELSE Gcd(b, a % b)

\* a rational with positive parts in lowest terms
Reduced(r) == <<r[1] \div Gcd(r[1], r[2]), r[2] \div Gcd(r[1], r[2])>>

\* C12: with fewer than 4 usable points (rows with a null score or timestamp
\* do not count) estimate_goal returns 'insufficient data', whatever the
\* scores, the goal and the slope.
C12_InsufficientData ==
    (Estimated /\ UsableCount(history) < 4) => estimate.outcome = "insufficient"

\* four rows, two of them with a null, and a newest score at the goal
C12_Witness ==
    /\ estimate.outcome = "insufficient"
    /\ Len(history) = 4
    /\ UsableCount(history) = 2
    /\ history[1].s >= goal

\* C13: with at least 4 usable points and the most recent score >= goal the
\* outcome is 'goal already met', also when the slope is zero or negative.
C13_GoalAlreadyMet ==
    (Estimated /\ UsableCount(history) >= 4 /\ NewestRow(history).s >= goal)
        => estimate.outcome = "met"

\* the goal is met exactly, on a falling trend
C13_Witness ==
    /\ estimate.outcome = "met"
    /\ NewestRow(history).s = goal
    /\ ScoreGain(history) < 0
    /\ estimate.slope[1] < 0

\* C14: every call returns one of the four outcomes; with at least 4 usable
\* points and the most recent score below the goal the outcome is 'flat
\* trend' exactly when slope <= 0.05, and otherwise a projection with
\* days_needed = (goal - current) / slope > 0 and the date now + days_needed.
C14_FlatOrProjection ==
    /\ Estimated => estimate.outcome \in {"insufficient", "met", "flat", "projection"}
    /\ (Estimated /\ UsableCount(history) >= 4 /\ NewestRow(history).s < goal)
        => LET slope == estimate.slope
               current == NewestRow(history).s
               dn == estimate.days_needed
           IN /\ slope[2] > 0
              /\ IF 20 * slope[1] <= slope[2]
                 THEN estimate.outcome = "flat"
                 ELSE /\ estimate.outcome = "projection"
                      /\ dn[2] > 0
                      /\ dn[1] > 0
                      /\ Reduced(dn) = Reduced(<<(goal - current) * slope[2], slope[1]>>)
                      /\ estimate.eta = now + (dn[1] * DayMinutes) \div dn[2]

\* a projection made a day after the newest event, more than a day ahead
C14_Witness ==
    /\ estimate.outcome = "projection"
    /\ now = NewestAt + DayMinutes
    /\ estimate.eta > now + DayMinutes
    /\ NewestRow(history).s < goal

\* C15 as stated: the slope is (newest score - oldest score) / (elapsed days
\* between the two points), without a floor on the elapsed days.
C15_SlopeOverElapsedDays ==
    (Estimated /\ UsableCount(history) >= 4)
        => estimate.slope[1] * ElapsedMinutes(history)
             = ScoreGain(history) * DayMinutes * estimate.slope[2]

\* C15: the slope is computed from exactly two points, the newest usable row
\* and the oldest of the min(10, n) most recent usable rows of the 30 newest
\* rows: slope = (newest score - oldest score) / max(1e-6, elapsed days).
C15_TwoPointSlope ==
    (Estimated /\ UsableCount(history) >= 4)
        => LET days == IF ElapsedMinutes(history) >= 1
                       THEN <<ElapsedMinutes(history), DayMinutes>>
                       ELSE <<1, 1000000>>
           IN /\ estimate.slope[2] > 0
              /\ estimate.slope[1] * days[1] = ScoreGain(history) * days[2] * estimate.slope[2]

\* the newest row is null and more than 10 usable rows follow it
C15_Witness ==
    /\ estimate.outcome = "projection"
    /\ Len(history) = 31
    /\ history[1].s = NULL
    /\ UsableCount(history) > 10
    /\ ScoreGain(history) > 0

\* C16: history [(t0, 20), (t1, 30)] with t1 - t0 = 10 days and goal 44 gives
\* a projection with slope 1.0, days_needed 14 and the date t1 + 14 days.
C16_TwoPointExample ==
    (/\ Estimated
     /\ Len(history) = 2
     /\ history[1] = [s |-> 30, created_at |-> NewestAt]
     /\ history[2] = [s |-> 20, created_at |-> NewestAt - 10 * DayMinutes]
     /\ goal = 44)
    => /\ estimate.outcome = "projection"
       /\ estimate.slope[1] = estimate.slope[2]
       /\ estimate.days_needed[1] = 14 * estimate.days_needed[2]
       /\ LocalDate(estimate.eta) = LocalDate(NewestAt + 14 * DayMinutes)

\* ---- 'today' ----

\* C17: an event lies in [start, end) of tz_bounds_for_today exactly when its
\* date in the configured timezone is today's local date, for every event
\* time and every current time.
C17_TodayNotionsAgree ==
    bounds # <<>> =>
        (InBounds(bounds, event_at) <=> LocalDateIn(zone, event_at) = LocalDateIn(zone, now))

\* ---- storage failures ----

\* C18: a step in which a call ends with a storage error leaves the users
\* table as it was, drops what the call had written, and starts nothing (no
\* statement is tried again); saver_awarded_date changes only together with
\* an increment of the balance by 1; and an award that returns the 'earned'
\* note has incremented the balance by 1 and stamped today's date.
C18_FailureLeavesStateUnchanged ==
    [][/\ \A p \in Procs :
            (ret'.op = "error" /\ pc[p] # "idle" /\ pc'[p] = "idle")
                => /\ users' = users
                   /\ txn'[p] = <<>>
                   /\ \A q \in Procs \ {p} : pc'[q] = pc[q] /\ txn'[q] = txn[q]
       /\ \A u \in Users :
            users'[u].saver_awarded_date # users[u].saver_awarded_date
                => /\ users'[u].streak_savers = users[u].streak_savers + 1
                   /\ users'[u].saver_awarded_date = LocalDate(now')
       /\ \A p \in Procs :
            (ret'.op = "award" /\ ret'.note /\ pc[p] # "idle" /\ pc'[p] = "idle")
                => /\ users'[loc[p].u].streak_savers = users[loc[p].u].streak_savers + 1
                   /\ users'[loc[p].u].saver_awarded_date = LocalDate(now')]_vars

\* an award failed after its increment and before the date was stamped
C18_Witness ==
    /\ ret.op = "error"
    /\ ret.savers = users[ret.u].streak_savers + 1
    /\ users[ret.u].saver_awarded_date # Today
    /\ tests_today_count(tests, ret.u, now) >= SAVER_EARN_THRESHOLD

\* ---- user records ----

\* C19: in every step of any interleaving of get_or_create_user calls, the
\* table afterwards holds at most one record per telegram_id, and a record
\* is created only for a telegram_id that has no record.
C19_OneRecordPerTelegramId ==
    [][/\ \A r1, r2 \in accounts' : r1.telegram_id = r2.telegram_id => r1 = r2
       /\ \A r \in accounts' \ accounts :
            (\E r0 \in accounts : r0.id = r.id) \/ FindAccount(accounts, r.telegram_id) = {}]_vars

\* two first contacts from one telegram_id ran at once: one created the
\* record, the other one's INSERT was refused
C19_Witness ==
    /\ ret.op = "error"
    /\ \E p \in Procs : /\ pc[p] = "idle"
                         /\ \A q \in Procs : pc[q] = "idle"
    /\ Cardinality(accounts) = 1
    /\ next_user_id = 2

\* ---- registration ----

RegistrationOps == {"reg_prompt", "reg_step", "reg_invalid", "reg_done"}

\* the four steps of the record's registration are complete and the user is
\* approved
Registered(r) ==
    /\ r.first_name # NullText
    /\ r.surname # NullText
    /\ r.nickname # NullText
    /\ r.email # NullText
    /\ r.reg_step = 0
    /\ r.registered_at # NULL
    /\ r.approved
    /\ ~r.banned

\* the step is the webhook handling a message from the user of record r
MessageFrom(r) ==
    /\ ret' # ret \/ accounts' # accounts
    /\ ret'.op \in RegistrationOps \cup {"welcome_back", "menu", "waiting", "ignored"}
    /\ ret'.u = r.id

\* C20: once a user has completed registration and been approved, a message
\* from that user is never handled by the registration flow and never changes
\* first_name, surname, nickname, email or reg_step; '/start' reaches the
\* welcome-back branch and a menu text reaches the menu handlers.
C20_RegistersOnce ==
    [][\A r \in accounts :
         Registered(r) /\ MessageFrom(r) =>
            /\ ret'.op \notin RegistrationOps
            /\ \E r2 \in accounts' :
                 /\ r2.id = r.id
                 /\ r2.first_name = r.first_name
                 /\ r2.surname = r.surname
                 /\ r2.nickname = r.nickname
                 /\ r2.email = r.email
                 /\ r2.reg_step = r.reg_step
            /\ ret'.text = START => ret'.op = "welcome_back"
            /\ ret'.text = MY_STATS => ret'.op = "menu"]_vars

\* ---- the streak after a spent saver ----

\* C21: when a saver was spent on local day D (no ScoreEvent on D, one on
\* D-1) and the user records a ScoreEvent on D+1, the streak evaluated on D+1
\* is the streak reported on D plus 1.
C21_SaverPreservesStreak ==
    \A u \in Senders :
        /\ ret.op \in StreakOps
        /\ ret.u = u
        /\ last_bridge[u].day # NULL
        /\ LocalDate(now) = last_bridge[u].day + 1
        /\ LocalDate(now) \in StreakDays(tests, u)
        /\ last_bridge[u].day \notin StreakDays(tests, u)
        /\ (last_bridge[u].day - 1) \in StreakDays(tests, u)
        => ret.streak = last_bridge[u].streak + 1

\* ---- update deduplication ----

\* C22: for every update id, at most one call of mark_update_processed has
\* returned True, a call has returned True exactly when the id is in the
\* table, and a call that returned False found the id accepted by another.
C22_ExactlyOneAccepts ==
    /\ \A id \in UpdateIds : /\ accepted[id] <= 1
                              /\ accepted[id] = 1 <=> id \in processed
    /\ ret.op = "mark" => accepted[ret.update_id] = 1

\* two calls with one id ran at once and the one that came second was refused
C22_Witness ==
    /\ ret.op = "mark"
    /\ ~ret.note
    /\ accepted[ret.update_id] = 1
    /\ Cardinality(processed) = 1
    /\ \E p \in Procs : pc[p] = "mu_insert" /\ loc[p].update_id # ret.update_id

\* C23: the webhook acts on at most one delivery of an update.
C23_UpdateHandledOnce == last_update.handled <= 1

\* ---- the rate limit ----

\* the step is the score flow handling a score in the range for user u
ScoreStep(u) ==
    /\ users[u].state = "awaiting_score"
    /\ users'[u].state = "none"
    /\ ret'.op \in {"score", "score_rejected"}

\* C24: the score flow records a score only if the user has fewer than
\* MAX_DAILY_TESTS ScoreEvents in the current local day and the newest one is
\* at least COOLDOWN_MINUTES old; the daily limit is reported before the
\* cooldown; a rejection creates no ScoreEvent and leaves the totals alone.
C24_RateLimit ==
    [][\A u \in Senders : ScoreStep(u) =>
         LET c == tests_today_count(tests, u, now)
             last == LastTestAt(tests, u)
             allowed == /\ c < MAX_DAILY_TESTS
                        /\ last = NULL \/ now - last >= COOLDOWN_MINUTES
         IN /\ tests' # tests <=> allowed
            /\ ret'.op = "score" <=> allowed
            /\ c >= MAX_DAILY_TESTS => ret'.text = "daily_limit"
            /\ ~allowed /\ c < MAX_DAILY_TESTS => ret'.text = "cooldown"
            /\ ~allowed => /\ tests' = tests
                           /\ users'[u].total_points = users[u].total_points
                           /\ users'[u].tests_count = users[u].tests_count]_vars

\* a score was rejected for the daily limit while the cooldown was running too
C24_Witness ==
    /\ ret.op = "score_rejected"
    /\ ret.text = "daily_limit"
    /\ tests_today_count(tests, 1, now) = MAX_DAILY_TESTS
    /\ now - LastTestAt(tests, 1) < COOLDOWN_MINUTES

\* ---- score and goal ranges ----

InvalidOps == {"score_invalid", "add_invalid", "goal_invalid", "admin_error"}

\* C25: every ScoreEvent has a score in 0..44 and every goal_math is unset
\* or in 0..44; an input that is out of range or not an integer creates no
\* ScoreEvent and changes no goal.
C25_ScoresAndGoalsInRange ==
    [][/\ \A r \in tests' : r.math_score \in MIN_SCORE..MAX_SCORE
       /\ \A u \in Users : users'[u].goal_math \in {NULL} \cup (MIN_SCORE..MAX_SCORE)
       /\ ret'.op \in InvalidOps =>
            /\ tests' = tests
            /\ \A u \in Users : /\ users'[u].goal_math = users[u].goal_math
                                /\ users'[u].total_points = users[u].total_points
                                /\ users'[u].tests_count = users[u].tests_count]_vars

\* a goal is set, scores from both ends of the range are recorded, and the
\* last input was refused
C25_Witness ==
    /\ users[1].goal_math = MAX_SCORE
    /\ \E r \in tests : r.user_id = 1 /\ r.math_score = MIN_SCORE
    /\ \E r \in tests : r.user_id = 1 /\ r.math_score = MAX_SCORE
    /\ ret.op \in InvalidOps

\* ---- repeated streak evaluation ----

\* C26: a streak evaluation that follows, on the same local day and with no
\* ScoreEvent recorded that day, an evaluation that spent a saver returns the
\* streak length the earlier one returned.  (Evaluations that spend no saver
\* compute the streak from the ScoreEvents alone.)
C26_SameDaySameStreak ==
    \A u \in Senders :
        /\ ret.op \in StreakOps
        /\ ret.u = u
        /\ last_bridge[u].day = LocalDate(now)
        /\ LocalDate(now) \notin StreakDays(tests, u)
        => ret.streak = last_bridge[u].streak

\* ---- saver accounting ----

\* C27: whenever no request is in progress, the persisted balance is the
\* balance at the start plus the awards that returned 'earned' minus the
\* evaluations that reported saver_used.
C27_SaverAccountingConserved ==
    (\A p \in Procs : pc[p] = "idle") =>
        \A u \in Senders : users[u].streak_savers = credited[u] - spent[u]

\* ---- concurrent removals ----

\* C28: whenever no removal is in progress, every user's total_points is the
\* sum of the scores of the user's remaining ScoreEvents and tests_count is
\* their number, also after two removals of one test id ran concurrently.
C28_RemovedOnce ==
    (\A p \in Procs : pc[p] = "idle") =>
        \A u \in Users :
            /\ users[u].total_points = SumScores(TestsOf(tests, u))
            /\ users[u].tests_count = Cardinality(TestsOf(tests, u))

\* ---- the rate limit under concurrent delivery ----

\* C29: of the scores recorded through the score flow, no two of one user are
\* less than COOLDOWN_MINUTES apart, and no local day holds more than
\* MAX_DAILY_TESTS of them.
C29_RateLimitConcurrent ==
    \A u \in Senders :
        /\ \A r1, r2 \in TestsOf(tests, u) :
             r1.id # r2.id /\ r1.created_at <= r2.created_at
                => r2.created_at - r1.created_at >= COOLDOWN_MINUTES
        /\ \A d \in 0..MaxDay :
             Cardinality({r \in TestsOf(tests, u) : LocalDate(r.created_at) = d})
                <= MAX_DAILY_TESTS

\* ---- the registration steps ----

\* the step that follows step n
NextStep(n) == IF n = 4 THEN 0 ELSE n + 1

\* the record with the answer of step n stored and the step advanced
Advanced(r, n, text) ==
    LET r1 == CASE n = 1 -> [r EXCEPT !.first_name = text]
                [] n = 2 -> [r EXCEPT !.surname = text]
                [] n = 3 -> [r EXCEPT !.nickname = text]
                [] n = 4 -> [r EXCEPT !.email = text, !.registered_at = now,
                                      !.approved = FALSE]
    IN [r1 EXCEPT !.reg_step = NextStep(n)]

\* the step is the webhook handling a message
MessageStep == last_update' # last_update

\* C30 as stated: while the persisted reg_step is in 1..4 it only moves to the
\* next step of 1 -> 2 -> 3 -> 4 -> 0, every non-empty message moves it by
\* one step (at step 4: if it matches the email pattern), anything else
\* leaves the record alone, and registered_at changes only at the move to 0.
C30_OneStepPerMessage ==
    [][\A r \in accounts : \A r2 \in accounts' :
         r.reg_step \in 1..4 /\ r2.id = r.id /\ ~r.banned =>
            LET text == last_update'.text
                advancing == /\ MessageStep
                             /\ text # ""
                             /\ r.reg_step = 4 => EmailMatches(text)
            IN r2 = IF advancing THEN Advanced(r, r.reg_step, text) ELSE r]_vars

\* C30: while the persisted reg_step is in 1..4, a message of the user moves
\* it to the next step of 1 -> 2 -> 3 -> 4 -> 0 when its text is not empty,
\* is not '/start' and, at step 4, matches the email pattern, and stores the
\* text in the field of the step; any other message leaves the record alone;
\* registered_at is written by exactly the message that makes reg_step 0.
C30_RegistrationSteps ==
    [][\A r \in accounts : \A r2 \in accounts' :
         r.reg_step \in 1..4 /\ r2.id = r.id /\ ~r.banned /\ MessageStep =>
            LET text == last_update'.text
                advancing == /\ text # ""
                             /\ ~IsStart(text)
                             /\ r.reg_step = 4 => EmailMatches(text)
            IN r2 = IF advancing THEN Advanced(r, r.reg_step, text) ELSE r]_vars

\* the fourth answer was accepted right after one that did not match the
\* email pattern
C30_Witness ==
    /\ ret.op = "reg_done"
    /\ last_update.update_id > 4
    /\ \E r \in accounts : /\ r.id = ret.u
                           /\ r.reg_step = 0
                           /\ r.registered_at = now
                           /\ r.email = ret.text
                           /\ r.first_name # NullText
                           /\ ~r.approved

\* ---- who may record a score ----

\* the record of telegram user tg as the request loads it (get_or_create_user)
LoadedRow(tg) == AccountOf(GetOrCreate(accounts, next_user_id, tg, tg), tg)

\* the step is the webhook handling a private text message
TextStep == last_update' # last_update /\ ret'.op # "callback"

\* the step is the webhook handling a callback query
CallbackStep == last_update' # last_update /\ ret'.op = "callback"

\* the row has been through the four registration steps or an approval
FinishedRegistration(r) == r.reg_step = 0 /\ r.registered_at # NULL

AdminRequest ==
    \/ TextStep /\ last_update'.text \in AdminCommands
    \/ CallbackStep

\* the chats of the users other than tg
OtherChats(tg) == {r.chat_id : r \in {x \in accounts : x.telegram_id # tg}}

\* C32: an admin command or an approve / reject callback of a sender whose
\* telegram id is not in ADMIN_IDS changes no other user's record, adds and
\* deletes no ScoreEvent and sends nothing to another user; and the approved
\* flag of a non-admin user is FALSE when the record is created and becomes
\* TRUE only in an approve command or callback of an admin.
C32_AdminOnly ==
    [][/\ (AdminRequest /\ ret'.u \notin ADMIN_IDS) =>
            /\ \A r \in accounts : r.telegram_id # ret'.u => r \in accounts'
            /\ tests' = tests
            /\ \A m \in outbox' : m.chat_id \notin OtherChats(ret'.u)
       /\ \A r2 \in accounts' :
            (r2.telegram_id \notin ADMIN_IDS /\ r2.approved
               /\ \A r \in accounts : r.id = r2.id => ~r.approved) =>
                 /\ AdminRequest
                 /\ ret'.u \in ADMIN_IDS
                 /\ last_update'.text \in {"/approve 101", "approve:101"}
                 /\ r2.telegram_id = 101]_vars

\* the student sent '/approve 101' and is still not approved
C32_Witness ==
    /\ ret.u = 101
    /\ last_update.text = "/approve 101"
    /\ \E r \in accounts : r.telegram_id = 101 /\ ~r.approved /\ r.registered_at = NULL

\* ---- approve_user_by_telegram_id ----

\* C34: approve_user_by_telegram_id(tg, approved) sets approved to the given
\* value, reg_step to 0 and state to NULL on the record with that telegram
\* id, writes registered_at only where it was NULL, and leaves every other
\* column and every other record as it was; for a telegram id without a
\* record it returns None and changes nothing.
C34_ApproveFrame ==
    [][ret'.op = "approve" =>
         IF \A r \in accounts : r.telegram_id # ret'.u
         THEN ret'.row = 0 /\ accounts' = accounts
         ELSE \E r \in accounts :
                /\ r.telegram_id = ret'.u
                /\ ret'.row = r.id
                /\ accounts' = (accounts \ {r}) \cup
                      {[r EXCEPT !.approved = ret'.note,
                                 !.reg_step = 0,
                                 !.state = NullText,
                                 !.registered_at = IF r.registered_at = NULL THEN now
                                                   ELSE r.registered_at]}]_vars

\* the student, registered the day before and walking the steps again, was
\* approved: the old registered_at is still there
C34_Witness ==
    /\ ret.op = "approve"
    /\ ret.note
    /\ ret.u = 101
    /\ \E r \in accounts : /\ r.telegram_id = 101
                           /\ r.approved
                           /\ r.reg_step = 0
                           /\ r.registered_at = 19 * 60
                           /\ r.registered_at # now
    /\ \E r \in accounts : r.telegram_id = 102 /\ r.state = ADMIN_BROADCAST

\* ---- rejected users ----

\* the step is an admin's '/reject 101' or reject button
RejectStep ==
    /\ AdminRequest
    /\ ret'.u \in ADMIN_IDS
    /\ last_update'.text \in {"/reject 101", "reject:101"}

C36_AtMostOneNudgePerDay == \A id \in 1..MaxUserId : nudges[id] <= 1

\* a reminder goes out to the user with this users.id in the step
NudgeDelivered(id) == nudges'[id] > nudges[id]

\* C37: a reminder goes out to a user in a run of the job only if the row
\* the run selected for the user is approved and not banned, the user has no
\* ScoreEvent in the current local day, the selected last_nudge_at is not of
\* the current local day, and the local time the run read lies within
\* [target - 10 min, target + 25 min], target being today's
\* pref_hour:pref_minute, or 19:00 when either is unset.
C37_NudgeOnlyWhenDue ==
    [][\A id \in 1..MaxUserId :
         NudgeDelivered(id) =>
            LET r == tick.rows[tick.i]
                t == tick.at
                midnight == (t \div DayMinutes) * DayMinutes
                target == IF r.pref_hour = NULL \/ r.pref_minute = NULL
                          THEN midnight + 19 * 60
                          ELSE midnight + r.pref_hour * 60 + r.pref_minute
            IN /\ r.id = id
               /\ r.approved /\ ~r.banned
               /\ \A e \in tests : e.user_id = id => e.created_at \div DayMinutes # now \div DayMinutes
               /\ r.last_nudge_at = NULL \/ r.last_nudge_at \div DayMinutes # t \div DayMinutes
               /\ target - 10 <= t /\ t <= target + 25]_vars

\* the student, without a preference, is reminded at 19:25 sharp, in a run
\* that follows a failed send
C37_Witness ==
    /\ ret.op = "sent"
    /\ ret.row = 1
    /\ now = DayMinutes + 19 * 60 + 25
    /\ nudges[1] = 1
    /\ tick.failed > 0
    /\ \E r \in accounts : r.id = 1 /\ r.pref_hour = NULL /\ r.last_nudge_at = now

\* the run at hand has reached the row of this user, and the row is due
SelectedDue(id) ==
    /\ tick.running
    /\ tick.i <= Len(tick.rows)
    /\ tick.rows[tick.i].id = id
    /\ ShouldNudge(tick.rows[tick.i], tests, tick.at)

\* the user is banned, or has a ScoreEvent of the current local day
NoLongerEligible(id) ==
    \E r \in accounts : r.id = id /\ (r.banned \/ tests_today_count(tests, id, now) > 0)

\* the send to this user raised in the step
SendFailed(id) == ret'.op = "send_failed" /\ ret'.row = id

\* C38: when the send of a nudge raises, last_nudge_at of the user is not
\* written, and the run goes on with the remaining rows it selected; with a
\* run every 5 minutes and a send that raises only while a later run inside
\* the window is left, every user a run finds due is in the end nudged that
\* day, unless the user is banned or records a score first.
C38_FailedSendIsRetried ==
    /\ [][\A id \in 1..MaxUserId :
            SendFailed(id) =>
               /\ accounts' = accounts
               /\ nudges' = nudges
               /\ tick'.running
               /\ tick'.rows = tick.rows
               /\ tick'.i = tick.i + 1]_vars
    /\ \A id \in 1..MaxUserId :
          SelectedDue(id) ~> (nudges[id] >= 1 \/ NoLongerEligible(id))

\* the admin was nudged at 18:50, the first run of the window, and the
\* student at 18:55, after the one send that raised: the send to the student
\* at 18:50
C38_Witness ==
    /\ ret.op = "sent"
    /\ ret.row = 1
    /\ now = EveningStart + 2 * TICK_MINUTES
    /\ tick.failed = 1
    /\ nudges = [id \in 1..MaxUserId |-> IF id <= 2 THEN 1 ELSE 0]
    /\ \E r \in accounts : r.id = 2 /\ r.last_nudge_at = EveningStart + TICK_MINUTES
    /\ \E r \in accounts : r.id = 1 /\ r.last_nudge_at = now

\* the fields of a record that a message of its owner can set
OwnFields(r) ==
    <<r.reg_step, r.state, r.goal_math, r.first_name, r.surname, r.nickname, r.email,
      r.streak_savers, r.saver_awarded_date, r.total_points, r.tests_count>>

\* a text message of a sender whose loaded record is banned sends nothing,
\* adds no ScoreEvent and leaves the sender's own fields as they were
BannedMessageIgnored ==
    [][(TextStep /\ LoadedRow(ret'.u).banned) =>
          /\ outbox' = {}
          /\ tests' = tests
          /\ ret'.op = "ignored"
          /\ \A r \in accounts : r.telegram_id = ret'.u =>
                \E q \in accounts' : q.id = r.id /\ OwnFields(q) = OwnFields(r)]_vars

\* a banned sender's message has been ignored
BannedMessageSeen ==
    /\ ret.op = "ignored"
    /\ \E r \in accounts : r.telegram_id = ret.u /\ r.banned

\* C33: no reminder goes out to a user whose record has banned = TRUE.
C33_BannedNeverNudged ==
    [][\A id \in 1..MaxUserId :
         NudgeDelivered(id) => \A r \in accounts : r.id = id => ~r.banned]_vars

====
